---- MODULE Spec2Model ----
(***************************************************************************)
(* Hit-song predictor: feature resolution, label reconciliation,          *)
(* persistence, and the two process-wide caches (classifier handle and    *)
(* catalog access token).                                                 *)
(*                                                                        *)
(* Representation of values                                               *)
(*   - a text is a sequence of one-character strings; the SQL/Python      *)
(*     NULL/None of a text column is the one-element sequence NoneStr;    *)
(*   - a number is an integer count of tenths (23 is 2.3), so that int()  *)
(*     and float() are different conversions;                             *)
(*   - a probability is an integer count of 1e-5, a confidence an integer *)
(*     count of hundredths of a percent (5500 is 55.00 %);                *)
(*   - a nullable boolean column is one of "None", "True", "False".       *)
(***************************************************************************)
EXTENDS Integers, Sequences, FiniteSets, TLC

VARIABLES
    songs,              \* Song table, in order of creation (created_at)
    predictions,        \* Prediction table, in order of creation
    audits,             \* PredictionAuditLog table, in order of creation
    songSeq,            \* last primary key given to a Song
    predSeq,            \* last primary key given to a Prediction
    artifact,           \* the classifier artifact stored at MODEL_PATH
    MODEL,              \* inference.MODEL: "None" or the loaded artifact
    _spotify_service,   \* spotify_service._spotify_service: 0 (None) or an instance
    services,           \* SpotifyService instances: access_token, token_expires_at
    clock,              \* time.time(), in seconds
    credentials,        \* whether SPOTIFY_CLIENT_ID and _SECRET are non-empty
    last,               \* what the last operation did and returned (history)
    pc,                 \* per thread: position inside the cache accessors
    local,              \* per thread: local variables of the cache accessors
    netlog              \* counters of file loads, token requests, instances (history)

vars == <<songs, predictions, audits, songSeq, predSeq, artifact, MODEL,
          _spotify_service, services, clock, credentials, last, pc, local, netlog>>

dbVars == <<songs, predictions, audits, songSeq, predSeq>>

(***************************************************************************)
(* Bounds of the model                                                     *)
(***************************************************************************)
MaxSongs == 2
MaxPreds == 2

(***************************************************************************)
(* Texts                                                                   *)
(***************************************************************************)
NoneStr == <<"None">>
NoneInt == -1

LowerChar(c) ==
    CASE c = "C" -> "c"
      [] c = "G" -> "g"
      [] c = "H" -> "h"
      [] c = "Z" -> "z"
      [] OTHER -> c

lower(s) == [i \in 1..Len(s) |-> LowerChar(s[i])]

\* str.strip(): leading and trailing blanks removed
RECURSIVE lstrip(_)
lstrip(s) == IF s # <<>> /\ Head(s) = " " THEN lstrip(Tail(s)) ELSE s

RECURSIVE rstrip(_)
rstrip(s) ==
    IF s # <<>> /\ s[Len(s)] = " " THEN rstrip(SubSeq(s, 1, Len(s) - 1)) ELSE s

strip(s) == rstrip(lstrip(s))

\* s.split(',')[0]
RECURSIVE split_first(_)
split_first(s) ==
    IF s = <<>> \/ Head(s) = "," THEN <<>>
    ELSE <<Head(s)>> \o split_first(Tail(s))

\* ', '.join(names)
RECURSIVE join(_)
join(names) ==
    IF names = <<>> THEN <<>>
    ELSE IF Len(names) = 1 THEN names[1]
    ELSE names[1] \o <<",", " ">> \o join(Tail(names))

\* Django lookups: a NULL column matches neither
iexact(col, s) == col # NoneStr /\ lower(col) = lower(s)

icontains(col, s) ==
    /\ col # NoneStr
    /\ \E i \in 0..Len(col) :
          /\ i + Len(s) <= Len(col)
          /\ SubSeq(lower(col), i + 1, i + Len(s)) = lower(s)

(***************************************************************************)
(* Numbers                                                                 *)
(***************************************************************************)
Num(whole) == whole * 10

\* int(x): truncation toward zero
int(x) == IF x >= 0 THEN (x \div 10) * 10 ELSE -(((-x) \div 10) * 10)

\* float(x) of a number
float(x) == x

\* The value of a singleton set.  Only({e(x) : x \in {v}}) is e(v), with v
\* computed once.
Only(S) == CHOOSE x \in S : TRUE

Max(a, b) == IF a >= b THEN a ELSE b
Min(a, b) == IF a <= b THEN a ELSE b

FeatureNames ==
    <<"duration_ms", "danceability", "energy", "valence", "acousticness",
      "instrumentalness", "explicit", "loudness", "tempo", "mode">>

FeatureKeys == {FeatureNames[i] : i \in 1..Len(FeatureNames)}

(***************************************************************************)
(* models.py                                                               *)
(***************************************************************************)
\* Song.save(): the derived flags, then the row is written
SongSave_Strict(row) ==
    [row EXCEPT !.is_acoustic = row.acousticness > 5,
                !.is_instrumental = row.instrumentalness > 5,
                !.is_hit = IF row.popularity # NoneInt
                           THEN (IF row.popularity > 50 THEN "True" ELSE "False")
                           ELSE row.is_hit]

SongSave(row) ==
    [row EXCEPT !.is_acoustic = row.acousticness > 5,
                !.is_instrumental = row.instrumentalness > 5,
                !.is_hit = IF row.popularity # NoneInt
                           THEN (IF row.popularity >= 50 THEN "True" ELSE "False")
                           ELSE row.is_hit]

\* A Song instance as constructed by Song(...), before save
SongNew(track_id, track_name, artists, popularity, is_hit, f, explicit, origin) ==
    [id |-> 0, track_id |-> track_id, track_name |-> track_name,
     artists |-> artists, popularity |-> popularity, is_hit |-> is_hit,
     duration_ms |-> f.duration_ms, danceability |-> f.danceability,
     energy |-> f.energy, valence |-> f.valence,
     acousticness |-> f.acousticness,
     instrumentalness |-> f.instrumentalness, loudness |-> f.loudness,
     tempo |-> f.tempo, mode |-> f.mode, explicit |-> explicit,
     is_acoustic |-> FALSE, is_instrumental |-> FALSE, origin |-> origin]

\* Meta.ordering = ['-created_at']: the rows of a queryset, newest first
Reverse(s) == [i \in 1..Len(s) |-> s[Len(s) + 1 - i]]

Newest(rows, P(_)) == Reverse(SelectSeq(rows, P))

(***************************************************************************)
(* inference.py                                                            *)
(***************************************************************************)
\* The artifacts that may be stored at MODEL_PATH.  A classifier answers
\* predict(v) and, when it has the interface, predict_proba(v); which answer
\* it gives to which vector is fixed by the artifact.
VecKey(v) == (v[1] + v[2] + v[3] + v[4] + v[5] + v[6] + v[7] + v[8] + v[9] + v[10]) % 4

\* probability of class 1 (HIT) of the two-class artifacts, per vector key
ForestP1 == <<70000, 92000, 50000, 20004>>
LogisticP1 == <<50000, 55000, 48765, 99996>>

model_has_proba(a) == a # "svm"

model_predict_proba(a, v) ==
    CASE a = "forest" -> <<100000 - ForestP1[VecKey(v) + 1], ForestP1[VecKey(v) + 1]>>
      [] a = "logistic" -> <<100000 - LogisticP1[VecKey(v) + 1], LogisticP1[VecKey(v) + 1]>>
      [] OTHER -> <<100000>>

\* predict() is the class of largest probability (the first on a tie)
model_predict(a, v) ==
    CASE a = "forest" -> ForestP1[VecKey(v) + 1] > 50000
      [] a = "logistic" -> LogisticP1[VecKey(v) + 1] > 50000
      [] a = "svm" -> VecKey(v) % 2 = 1
      [] OTHER -> FALSE

\* a loader whose cached handle is another classifier than the one on disk
load_model_Stale(cache, onDisk) == IF cache = "None" THEN onDisk ELSE "logistic"

\* load_model() run to completion by one caller: the handle it returns and
\* the cache it leaves
load_model(cache, onDisk) == IF cache = "None" THEN onDisk ELSE cache

\* a vector with loudness and tempo exchanged
prepare_features_Swapped(user_input) ==
    <<float(user_input.duration_ms), float(user_input.danceability),
      float(user_input.energy), float(user_input.valence),
      float(user_input.acousticness), float(user_input.instrumentalness),
      float(user_input.explicit), float(user_input.tempo),
      float(user_input.loudness), float(user_input.mode)>>

\* prepare_features(user_input): the vector, in training order
prepare_features(user_input) ==
    <<float(user_input.duration_ms), float(user_input.danceability),
      float(user_input.energy), float(user_input.valence),
      float(user_input.acousticness), float(user_input.instrumentalness),
      float(user_input.explicit), float(user_input.loudness),
      float(user_input.tempo), float(user_input.mode)>>

\* round(confidence * 100, 2): a probability in 1e-5 to hundredths of a
\* percent, halves to the even neighbour
round2(p) ==
    LET q == p \div 10
        r == p % 10
    IN IF r > 5 \/ (r = 5 /\ q % 2 = 1) THEN q + 1 ELSE q

\* a predict_song that reports the probability of the class it predicted
predict_song_PredictedClass(model, features) ==
    LET prediction == model_predict(model, features)
        proba == model_predict_proba(model, features)
        confidence == IF model_has_proba(model)
                      THEN (IF Len(proba) > 1 THEN Max(proba[1], proba[2])
                            ELSE proba[1])
                      ELSE 50000
    IN [is_hit |-> prediction, confidence |-> round2(confidence)]

\* predict_song(features) with the loaded model
predict_song(model, features) ==
    LET prediction == model_predict(model, features)
        proba == model_predict_proba(model, features)
        confidence == IF model_has_proba(model)
                      THEN (IF Len(proba) > 1 THEN proba[2] ELSE proba[1])
                      ELSE 50000
    IN [is_hit |-> prediction, confidence |-> round2(confidence)]

(***************************************************************************)
(* views.py: reconciliation of the model's verdict with the dataset label  *)
(***************************************************************************)
Reconcile_NoCap(in_dataset, is_hit_in_dataset, model_hit, model_confidence) ==
    IF in_dataset
    THEN IF is_hit_in_dataset # model_hit
         THEN [is_hit |-> is_hit_in_dataset,
               confidence |-> Max(6000, model_confidence + 1000),
               adjusted_by_dataset |-> TRUE]
         ELSE [is_hit |-> model_hit,
               confidence |-> model_confidence + 500,
               adjusted_by_dataset |-> FALSE]
    ELSE [is_hit |-> model_hit, confidence |-> model_confidence,
          adjusted_by_dataset |-> FALSE]

Reconcile_NoFloor(in_dataset, is_hit_in_dataset, model_hit, model_confidence) ==
    IF in_dataset
    THEN IF is_hit_in_dataset # model_hit
         THEN [is_hit |-> is_hit_in_dataset,
               confidence |-> model_confidence + 1000,
               adjusted_by_dataset |-> TRUE]
         ELSE [is_hit |-> model_hit,
               confidence |-> Min(9500, model_confidence + 500),
               adjusted_by_dataset |-> FALSE]
    ELSE [is_hit |-> model_hit, confidence |-> model_confidence,
          adjusted_by_dataset |-> FALSE]

Reconcile_AlwaysBoost(in_dataset, is_hit_in_dataset, model_hit, model_confidence) ==
    [is_hit |-> model_hit,
     confidence |-> Min(9500, model_confidence + 500),
     adjusted_by_dataset |-> FALSE]

\* a reconciliation that marks every prediction with a reference label
Reconcile_FlagWithReference(in_dataset, is_hit_in_dataset, model_hit, model_confidence) ==
    IF in_dataset
    THEN IF is_hit_in_dataset # model_hit
         THEN [is_hit |-> is_hit_in_dataset,
               confidence |-> Max(6000, model_confidence + 1000),
               adjusted_by_dataset |-> TRUE]
         ELSE [is_hit |-> model_hit,
               confidence |-> Min(9500, model_confidence + 500),
               adjusted_by_dataset |-> TRUE]
    ELSE [is_hit |-> model_hit, confidence |-> model_confidence,
          adjusted_by_dataset |-> FALSE]

\* predict_from_spotify, lines 199-224
Reconcile(in_dataset, is_hit_in_dataset, model_hit, model_confidence) ==
    IF in_dataset
    THEN IF is_hit_in_dataset # model_hit
         THEN [is_hit |-> is_hit_in_dataset,
               confidence |-> Max(6000, model_confidence + 1000),
               adjusted_by_dataset |-> TRUE]
         ELSE [is_hit |-> model_hit,
               confidence |-> Min(9500, model_confidence + 500),
               adjusted_by_dataset |-> FALSE]
    ELSE [is_hit |-> model_hit, confidence |-> model_confidence,
          adjusted_by_dataset |-> FALSE]

(***************************************************************************)
(* The remote catalog (environment): fixed data per track                  *)
(***************************************************************************)
Tracks == {"t1", "t2"}

Features(d, da, en, va, ac, ins, lo, te, mo) ==
    [duration_ms |-> d, danceability |-> da, energy |-> en, valence |-> va,
     acousticness |-> ac, instrumentalness |-> ins, loudness |-> lo,
     tempo |-> te, mode |-> mo]

\* GET /tracks/{id}
CatalogTrack(t) ==
    CASE t = "t1" -> [name |-> <<"C", "o">>, artists |-> <<<<"G">>, <<"H">>>>,
                      popularity |-> 49, duration_ms |-> Num(3), explicit |-> FALSE]
      [] OTHER    -> [name |-> <<"Z">>, artists |-> <<<<"H">>>>,
                      popularity |-> 50, duration_ms |-> Num(2), explicit |-> TRUE]

\* GET /audio-features/{id}
CatalogFeatures(t) ==
    CASE t = "t1" -> Features(Num(3), 6, 4, 7, 1, 0, -67, Num(88), Num(0))
      [] OTHER    -> Features(Num(2), 7, 9, 2, 6, 0, -50, Num(120), Num(1))

(***************************************************************************)
(* spotify_service.py: token cache and authenticated requests              *)
(***************************************************************************)
\* a response of the token endpoint; delay is the time the call took
TokenResponse(status, token, expires_in, delay) ==
    [status |-> status, access_token |-> token, expires_in |-> expires_in,
     delay |-> delay]

NewService == [access_token |-> "None", token_expires_at |-> 0]

\* token_data.get('expires_in', 3600); expires_in is NoneInt when the key is
\* absent from the response
expires_in_of(resp) == IF resp.expires_in = NoneInt THEN 3600 ELSE resp.expires_in

_get_access_token_NoMargin(svc, now, creds, resp) ==
    IF svc.access_token # "None" /\ now < svc.token_expires_at
    THEN [svc |-> svc, raised |-> "no", token |-> svc.access_token, posts |-> 0,
          now |-> now]
    ELSE IF ~creds
    THEN [svc |-> svc, raised |-> "ValueError", token |-> "None", posts |-> 0,
          now |-> now]
    ELSE IF resp.status # 200
    THEN [svc |-> svc, raised |-> "Exception", token |-> "None", posts |-> 1,
          now |-> now + resp.delay]
    ELSE [svc |-> [access_token |-> resp.access_token,
                   token_expires_at |-> now + resp.delay + expires_in_of(resp)],
          raised |-> "no", token |-> resp.access_token, posts |-> 1,
          now |-> now + resp.delay]

\* _get_access_token() run to completion by one caller at time now:
\* the service it leaves, what it returned or raised, the POSTs it sent
_get_access_token(svc, now, creds, resp) ==
    IF svc.access_token # "None" /\ now < svc.token_expires_at - 60
    THEN [svc |-> svc, raised |-> "no", token |-> svc.access_token, posts |-> 0,
          now |-> now]
    ELSE IF ~creds
    THEN [svc |-> svc, raised |-> "ValueError", token |-> "None", posts |-> 0,
          now |-> now]
    ELSE IF resp.status # 200
    THEN [svc |-> svc, raised |-> "Exception", token |-> "None", posts |-> 1,
          now |-> now + resp.delay]
    ELSE [svc |-> [access_token |-> resp.access_token,
                   token_expires_at |-> now + resp.delay + expires_in_of(resp)],
          raised |-> "no", token |-> resp.access_token, posts |-> 1,
          now |-> now + resp.delay]

\* the network's answers to one _make_request call: the token endpoint's
\* answer to each token request and the API's status for each GET
Net(tok1, s1, tok2, s2) == [tok1 |-> tok1, s1 |-> s1, tok2 |-> tok2, s2 |-> s2]

\* a client that answers a second 401 with another refresh and a third GET
MakeRequestWith_RetryAgain(a, creds, net) ==
    IF a.raised # "no"
    THEN [svc |-> a.svc, raised |-> a.raised, posts |-> a.posts, gets |-> 0,
          refreshes |-> 0, now |-> a.now]
    ELSE IF net.s1 = 404
    THEN [svc |-> a.svc, raised |-> "ValueError", posts |-> a.posts,
          gets |-> 1, refreshes |-> 0, now |-> a.now]
    ELSE IF net.s1 = 401
    THEN LET b == _get_access_token([a.svc EXCEPT !.access_token = "None"],
                                    a.now, creds, net.tok2)
         IN IF b.raised # "no"
            THEN [svc |-> b.svc, raised |-> b.raised,
                  posts |-> a.posts + b.posts, gets |-> 1, refreshes |-> 1,
                  now |-> b.now]
            ELSE IF net.s2 = 401
            THEN [svc |-> b.svc, raised |-> "no",
                  posts |-> a.posts + b.posts + 1, gets |-> 3,
                  refreshes |-> 2, now |-> b.now]
            ELSE [svc |-> b.svc,
                  raised |-> IF net.s2 = 200 THEN "no" ELSE "HTTPError",
                  posts |-> a.posts + b.posts, gets |-> 2, refreshes |-> 1,
                  now |-> b.now]
    ELSE [svc |-> a.svc,
          raised |-> IF net.s1 = 200 THEN "no" ELSE "HTTPError",
          posts |-> a.posts, gets |-> 1, refreshes |-> 0, now |-> a.now]

\* _make_request, lines 85-101, after the token a was obtained: what it
\* raised, the token POSTs and the GETs it sent, and the calls of
\* _get_access_token() it made after a 401 (refreshes).  A status that
\* raise_for_status() rejects raises requests.HTTPError.
MakeRequestWith(a, creds, net) ==
    IF a.raised # "no"
    THEN [svc |-> a.svc, raised |-> a.raised, posts |-> a.posts, gets |-> 0,
          refreshes |-> 0, now |-> a.now]
    ELSE IF net.s1 = 404
    THEN [svc |-> a.svc, raised |-> "ValueError", posts |-> a.posts,
          gets |-> 1, refreshes |-> 0, now |-> a.now]
    ELSE IF net.s1 = 401
    THEN LET b == _get_access_token([a.svc EXCEPT !.access_token = "None"],
                                    a.now, creds, net.tok2)
         IN IF b.raised # "no"
            THEN [svc |-> b.svc, raised |-> b.raised,
                  posts |-> a.posts + b.posts, gets |-> 1, refreshes |-> 1,
                  now |-> b.now]
            ELSE [svc |-> b.svc,
                  raised |-> IF net.s2 = 200 THEN "no" ELSE "HTTPError",
                  posts |-> a.posts + b.posts, gets |-> 2, refreshes |-> 1,
                  now |-> b.now]
    ELSE [svc |-> a.svc,
          raised |-> IF net.s1 = 200 THEN "no" ELSE "HTTPError",
          posts |-> a.posts, gets |-> 1, refreshes |-> 0, now |-> a.now]

\* _make_request(endpoint) run to completion
_make_request(svc, now, creds, net) ==
    Only({MakeRequestWith(a, creds, net) :
              a \in {_get_access_token(svc, now, creds, net.tok1)}})

\* get_track_info(track_id): the metadata of a 200 answer
track_info_of(t) ==
    [track_id |-> t, title |-> CatalogTrack(t).name,
     artist |-> join(CatalogTrack(t).artists),
     popularity |-> CatalogTrack(t).popularity,
     duration_ms |-> CatalogTrack(t).duration_ms,
     explicit |-> IF CatalogTrack(t).explicit THEN Num(1) ELSE Num(0)]

(***************************************************************************)
(* spotify_service.py: the reference-dataset lookup                        *)
(***************************************************************************)
Truthy(b) == b = "True"

\* Song.objects.filter(track_name__iexact=..., artists__icontains=...)
ExactRows(rows, track_clean, artist_first) ==
    LET P(r) == iexact(r.track_name, track_clean) /\ icontains(r.artists, artist_first)
    IN Newest(rows, P)

\* Song.objects.filter(track_name__icontains=..., artists__icontains=...)
PartialRows(rows, track_clean, artist_first) ==
    LET P(r) == icontains(r.track_name, track_clean) /\ icontains(r.artists, artist_first)
    IN Newest(rows, P)

NoMatch == [found |-> FALSE]

\* the dict built from the matched Song, lines 154-172
DatasetMatch(song) ==
    [found |-> TRUE,
     duration_ms |-> int(song.duration_ms),
     danceability |-> float(song.danceability),
     energy |-> float(song.energy),
     valence |-> float(song.valence),
     acousticness |-> float(song.acousticness),
     instrumentalness |-> float(song.instrumentalness),
     loudness |-> float(song.loudness),
     tempo |-> float(song.tempo),
     mode |-> int(song.mode),
     explicit |-> IF song.explicit THEN Num(1) ELSE Num(0),
     source |-> "dataset",
     popularity |-> IF song.popularity = NoneInt THEN 0 ELSE song.popularity,
     is_hit_in_dataset |-> Truthy(song.is_hit),
     title |-> song.track_name,
     artist |-> song.artists,
     row |-> song.id,
     row_origin |-> song.origin]

\* a lookup without the exact step: the newest row whose title contains the
\* requested one
get_audio_features_from_dataset_AnyTitle(rows, track_name, artist_name) ==
    LET track_clean == strip(track_name)
        artist_clean == strip(artist_name)
        artist_first == strip(split_first(artist_clean))
        found == PartialRows(rows, track_clean, artist_first)
    IN IF found = <<>> THEN NoMatch ELSE DatasetMatch(found[1])

\* get_audio_features_from_dataset(track_name, artist_name)
get_audio_features_from_dataset(rows, track_name, artist_name) ==
    LET track_clean == strip(track_name)
        artist_clean == strip(artist_name)
        artist_first == strip(split_first(artist_clean))
        exact == ExactRows(rows, track_clean, artist_first)
        found == IF exact # <<>> THEN exact
                 ELSE PartialRows(rows, track_clean, artist_first)
    IN IF found = <<>> THEN NoMatch ELSE DatasetMatch(found[1])

(***************************************************************************)
(* spotify_service.py: resolution by identifier and catalog search         *)
(***************************************************************************)
NoFeatures == Features(0, 0, 0, 0, 0, 0, 0, 0, 0)

WithExplicit(f, e) ==
    [duration_ms |-> f.duration_ms, danceability |-> f.danceability,
     energy |-> f.energy, valence |-> f.valence,
     acousticness |-> f.acousticness,
     instrumentalness |-> f.instrumentalness, explicit |-> e,
     loudness |-> f.loudness, tempo |-> f.tempo, mode |-> f.mode]

NoAudio ==
    [track_id |-> "None", title |-> NoneStr, artist |-> NoneStr,
     popularity |-> NoneInt, source |-> "None", is_hit_in_dataset |-> "None",
     f |-> WithExplicit(NoFeatures, 0), row |-> 0, row_origin |-> "None"]

\* a merge in which the catalog's duration and explicit flag win
MergeDataset_KeepCatalog(track_id, m) ==
    [track_id |-> track_id, title |-> m.title, artist |-> m.artist,
     popularity |-> m.popularity, source |-> m.source,
     is_hit_in_dataset |-> IF m.is_hit_in_dataset THEN "True" ELSE "False",
     f |-> IF track_id = "None" THEN WithExplicit(m, m.explicit)
           ELSE [WithExplicit(m, track_info_of(track_id).explicit)
                     EXCEPT !.duration_ms = track_info_of(track_id).duration_ms],
     row |-> m.row, row_origin |-> m.row_origin]

\* {**track_info, **dataset_features}: every key of the dataset match
\* overrides the catalog's
MergeDataset(track_id, m) ==
    [track_id |-> track_id, title |-> m.title, artist |-> m.artist,
     popularity |-> m.popularity, source |-> m.source,
     is_hit_in_dataset |-> IF m.is_hit_in_dataset THEN "True" ELSE "False",
     f |-> WithExplicit(m, m.explicit), row |-> m.row,
     row_origin |-> m.row_origin]

\* {**track_info, <the nine audio features>, 'source': 'spotify_api'}
MergeApi(info, feat) ==
    [track_id |-> info.track_id, title |-> info.title, artist |-> info.artist,
     popularity |-> info.popularity, source |-> "spotify_api",
     is_hit_in_dataset |-> "None",
     f |-> WithExplicit(feat, info.explicit), row |-> 0, row_origin |-> "None"]

\* the answers of the network to the requests of one handler, per endpoint
Scenario(search, info, feat) == [search |-> search, info |-> info, feat |-> feat]

\* get_audio_features, lines 189-233, after track_info was fetched (r1);
\* info is what the fetch of the metadata raised, feat what the call of the
\* audio-features endpoint raised ("None" when it was not called) and
\* feat_gets the GETs sent to that endpoint
ResolveWith(rows, creds, track_id, sc, r1) ==
    LET track_info == track_info_of(track_id)
        dataset_features ==
            get_audio_features_from_dataset(rows, track_info.title, track_info.artist)
        r2 == _make_request(r1.svc, r1.now, creds, sc.feat)
    IN IF r1.raised # "no"
       THEN [svc |-> r1.svc, now |-> r1.now, raised |-> r1.raised,
             audio |-> NoAudio, gets |-> r1.gets, info |-> r1.raised,
             feat |-> "None", feat_gets |-> 0]
       ELSE IF dataset_features.found
       THEN [svc |-> r1.svc, now |-> r1.now, raised |-> "no",
             audio |-> MergeDataset(track_id, dataset_features),
             gets |-> r1.gets, info |-> "no", feat |-> "None", feat_gets |-> 0]
       ELSE IF r2.raised = "no"
       THEN [svc |-> r2.svc, now |-> r2.now, raised |-> "no",
             audio |-> MergeApi(track_info, CatalogFeatures(track_id)),
             gets |-> r1.gets + r2.gets, info |-> "no", feat |-> "no",
             feat_gets |-> r2.gets]
       ELSE [svc |-> r2.svc, now |-> r2.now, raised |-> "ValueError",
             audio |-> NoAudio, gets |-> r1.gets + r2.gets, info |-> "no",
             feat |-> r2.raised, feat_gets |-> r2.gets]

\* get_audio_features(track_id)
get_audio_features(rows, svc, now, creds, track_id, sc) ==
    Only({ResolveWith(rows, creds, track_id, sc, r1) :
              r1 \in {_make_request(svc, now, creds, sc.info)}})

\* tracks.sort(key=lambda x: (not x['in_dataset'], -x['popularity'])): stable
KeyLess(a, b) ==
    \/ a.in_dataset /\ ~b.in_dataset
    \/ a.in_dataset = b.in_dataset /\ a.popularity > b.popularity

RECURSIVE InsertSorted(_, _)
InsertSorted(sorted, x) ==
    IF sorted = <<>> THEN <<x>>
    ELSE IF KeyLess(x, Head(sorted)) THEN <<x>> \o sorted
    ELSE <<Head(sorted)>> \o InsertSorted(Tail(sorted), x)

RECURSIVE SortTracks(_)
SortTracks(tracks) ==
    IF tracks = <<>> THEN <<>>
    ELSE InsertSorted(SortTracks(SubSeq(tracks, 1, Len(tracks) - 1)),
                      tracks[Len(tracks)])

\* the entry search_tracks builds for one item of the catalog's answer
SearchEntry(rows, t) ==
    LET track_name == CatalogTrack(t).name
        artist_name == join(CatalogTrack(t).artists)
        artist_first == strip(split_first(artist_name))
    IN [id |-> t, title |-> track_name, artist |-> artist_name,
        popularity |-> CatalogTrack(t).popularity,
        in_dataset |-> ExactRows(rows, strip(track_name), artist_first) # <<>>]

\* search_tracks(query, limit); items is the catalog's answer to the query
search_tracks(rows, svc, now, creds, items, sc) ==
    LET r == _make_request(svc, now, creds, sc.search)
    IN IF r.raised # "no"
       THEN [svc |-> r.svc, now |-> r.now, raised |-> r.raised, tracks |-> <<>>]
       ELSE [svc |-> r.svc, now |-> r.now, raised |-> "no",
             tracks |-> SortTracks([i \in 1..Len(items) |-> SearchEntry(rows, items[i])])]

(***************************************************************************)
(* views.py: persistence                                                   *)
(***************************************************************************)
DB(s, p, a, ss, ps) ==
    [songs |-> s, predictions |-> p, audits |-> a, songSeq |-> ss, predSeq |-> ps]

Label(b) == IF b THEN "HIT" ELSE "FLOP"

\* Song.objects.create(...): the instance is saved and gets the next key
SongCreate(db, row) ==
    [db EXCEPT !.songs = Append(db.songs, SongSave([row EXCEPT !.id = db.songSeq + 1])),
               !.songSeq = db.songSeq + 1]

\* lines 256-270: the fields of an existing Song are overwritten, then save()
SongUpdate(db, id, audio) ==
    LET upd(r) ==
            IF r.id # id THEN r
            ELSE SongSave([r EXCEPT !.track_name = audio.title,
                                    !.artists = audio.artist,
                                    !.popularity = audio.popularity,
                                    !.duration_ms = audio.f.duration_ms,
                                    !.danceability = audio.f.danceability,
                                    !.energy = audio.f.energy,
                                    !.valence = audio.f.valence,
                                    !.acousticness = audio.f.acousticness,
                                    !.instrumentalness = audio.f.instrumentalness,
                                    !.loudness = audio.f.loudness,
                                    !.tempo = audio.f.tempo,
                                    !.mode = audio.f.mode,
                                    !.explicit = (audio.f.explicit = Num(1))])
    IN [db EXCEPT !.songs = [i \in 1..Len(db.songs) |-> upd(db.songs[i])]]

RowsWithTrackId(rows, track_id) ==
    LET P(r) == r.track_id = track_id IN SelectSeq(rows, P)

\* a request that creates a Song whether or not one has the identifier
UpsertSong_AlwaysCreate(db, track_id, audio) ==
    LET fresh == SongNew(track_id, audio.title, audio.artist, audio.popularity,
                         "None", audio.f, audio.f.explicit = Num(1), "request")
    IN [db |-> SongCreate(db, fresh), song |-> db.songSeq + 1, created |-> TRUE]

\* lines 226-294: the Song of the request; song is 0 when get() raised
\* MultipleObjectsReturned
UpsertSong(db, track_id, audio) ==
    LET fresh == SongNew(track_id, audio.title, audio.artist, audio.popularity,
                         "None", audio.f, audio.f.explicit = Num(1), "request")
        same == RowsWithTrackId(db.songs, track_id)
    IN IF track_id # "None" /\ Len(same) > 1
       THEN [db |-> db, song |-> 0, created |-> FALSE]
       ELSE IF track_id # "None" /\ Len(same) = 1
       THEN [db |-> SongUpdate(db, same[1].id, audio), song |-> same[1].id,
             created |-> FALSE]
       ELSE [db |-> SongCreate(db, fresh), song |-> db.songSeq + 1,
             created |-> TRUE]

\* Prediction.objects.create(...)
PredictionCreate(db, song, rec, model_hit, model_confidence, dataset_label, dataset_popularity) ==
    [db EXCEPT !.predictions =
                   Append(db.predictions,
                          [id |-> db.predSeq + 1, song |-> song,
                           is_hit |-> rec.is_hit, confidence |-> rec.confidence,
                           model_prediction |-> Label(model_hit),
                           model_confidence |-> model_confidence,
                           adjusted_by_dataset |-> rec.adjusted_by_dataset,
                           dataset_label |-> dataset_label,
                           dataset_popularity |-> dataset_popularity]),
               !.predSeq = db.predSeq + 1]

\* PredictionAuditLog.objects.create(prediction=..., ...)
AuditCreate(db, prediction, rec) ==
    [db EXCEPT !.audits =
                   Append(db.audits,
                          [prediction |-> prediction,
                           response_prediction |-> Label(rec.is_hit),
                           response_confidence |-> rec.confidence])]

\* The database may refuse a write (a locked or unreachable database); fail
\* names the write of the request that raises, "no" when none does.
FailPoints == {"no", "song", "prediction", "audit"}

\* lines 296-342 and 494-518: the three writes in order, each committed on
\* its own (autocommit); the first that raises ends the request with 500
Persist(db, withSong, song, rec, model_hit, model_confidence, dataset_label, dataset_popularity, fail) ==
    LET withPred == PredictionCreate(withSong, song, rec, model_hit, model_confidence,
                                     dataset_label, dataset_popularity)
        withAudit == AuditCreate(withPred, withPred.predSeq, rec)
    IN IF fail = "song" \/ song = 0 THEN [db |-> db, status |-> 500, prediction |-> 0]
       ELSE IF fail = "prediction" THEN [db |-> withSong, status |-> 500, prediction |-> 0]
       ELSE IF fail = "audit" THEN [db |-> withPred, status |-> 500, prediction |-> 0]
       ELSE [db |-> withAudit, status |-> 200, prediction |-> withPred.predSeq]

(***************************************************************************)
(* History: what the last operation did                                    *)
(***************************************************************************)
NoScenario == "None"

NoLast ==
    [op |-> "None", status |-> 0, track_id |-> "None", source |-> "None",
     f |-> WithExplicit(NoFeatures, 0), model_hit |-> FALSE,
     model_confidence |-> 0, is_hit |-> FALSE, confidence |-> 0,
     adjusted_by_dataset |-> FALSE, is_hit_in_dataset |-> "None",
     dataset_popularity |-> NoneInt, row_origin |-> "None", song |-> 0,
     prediction |-> 0, sc |-> NoScenario, error |-> "None",
     hints |-> <<>>, query |-> "None", row |-> 0]

(***************************************************************************)
(* views.py: the handlers                                                  *)
(***************************************************************************)
\* get_spotify_service() run to completion by one caller
get_spotify_service(instance, insts) ==
    IF instance = 0
    THEN [instance |-> Len(insts) + 1, services |-> Append(insts, NewService)]
    ELSE [instance |-> instance, services |-> insts]

\* lines 176-342 of predict_from_spotify: prediction, reconciliation and
\* persistence for the resolved audio_data
SpotifyTail(db, cache, onDisk, track_id, audio, fail) ==
    LET model == load_model(cache, onDisk)
        m == predict_song(model, prepare_features(audio.f))
        in_dataset == audio.source = "dataset"
        rec == Reconcile(in_dataset, Truthy(audio.is_hit_in_dataset),
                         m.is_hit, m.confidence)
        up == UpsertSong(db, track_id, audio)
        dataset_label == IF Truthy(audio.is_hit_in_dataset) THEN "HIT"
                         ELSE IF in_dataset THEN "FLOP" ELSE "None"
        dataset_popularity == IF in_dataset THEN audio.popularity ELSE NoneInt
        p == Persist(db, up.db, up.song, rec, m.is_hit, m.confidence,
                     dataset_label, dataset_popularity, fail)
    IN [db |-> p.db, MODEL |-> model, status |-> p.status,
        last |-> IF p.status # 200
                 THEN [NoLast EXCEPT !.status = p.status, !.error = "database"]
                 ELSE [NoLast EXCEPT !.status = p.status,
                                     !.track_id = track_id,
                                     !.source = audio.source,
                                     !.f = audio.f,
                                     !.model_hit = m.is_hit,
                                     !.model_confidence = m.confidence,
                                     !.is_hit = rec.is_hit,
                                     !.confidence = rec.confidence,
                                     !.adjusted_by_dataset = rec.adjusted_by_dataset,
                                     !.is_hit_in_dataset = audio.is_hit_in_dataset,
                                     !.dataset_popularity = dataset_popularity,
                                     !.row_origin = audio.row_origin,
                                     !.row = audio.row,
                                     !.song = up.song,
                                     !.prediction = p.prediction]]

StatusOf(raised) == IF raised = "ValueError" THEN 400 ELSE 500

\* the answer of a request that raised before the prediction
RequestFailed(db, cache, op, raised, svc, now) ==
    [db |-> db, MODEL |-> cache, svc |-> svc, now |-> now,
     last |-> [NoLast EXCEPT !.op = op, !.status = StatusOf(raised),
                             !.error = raised]]

\* the answer of a request that reached lines 176-350 with outcome t
RequestDone(op, t, svc, now) ==
    [db |-> t.db, MODEL |-> t.MODEL, svc |-> svc, now |-> now,
     last |-> [t.last EXCEPT !.op = op]]

\* predict_from_spotify with a track identifier, after the resolution r
IdResolved(db, cache, onDisk, track_id, sc, fail, r) ==
    IF r.raised # "no"
    THEN RequestFailed(db, cache, "spotify_id", r.raised, r.svc, r.now)
    ELSE LET t == SpotifyTail(db, cache, onDisk, track_id, r.audio, fail)
             done == RequestDone("spotify_id", t, r.svc, r.now)
         IN [done EXCEPT !.last.sc = IF t.status = 200 THEN sc ELSE NoScenario]

\* predict_from_spotify with a track identifier (lines 82-85, then 176-350)
predict_from_spotify_id(db, cache, onDisk, svc, now, cr, track_id, sc, fail) ==
    Only({IdResolved(db, cache, onDisk, track_id, sc, fail, r) :
              r \in {get_audio_features(db.songs, svc, now, cr, track_id, sc)}})

\* lines 134-144: the first candidate tagged in_dataset whose resolution by
\* identifier succeeds
RECURSIVE TryCandidates(_, _, _, _, _, _)
TryCandidates(rows, svc, now, cr, tracks, sc) ==
    IF tracks = <<>>
    THEN [found |-> FALSE, svc |-> svc, now |-> now, audio |-> NoAudio,
          track_id |-> "None"]
    ELSE IF ~Head(tracks).in_dataset
    THEN TryCandidates(rows, svc, now, cr, Tail(tracks), sc)
    ELSE Only({IF r.raised = "no"
               THEN [found |-> TRUE, svc |-> r.svc, now |-> r.now,
                     audio |-> r.audio, track_id |-> Head(tracks).id]
               ELSE TryCandidates(rows, r.svc, r.now, cr, Tail(tracks), sc) :
                   r \in {get_audio_features(rows, svc, now, cr,
                                             Head(tracks).id, sc)}})

Hint(r) == [id |-> r.id, title |-> r.title, artist |-> r.artist]

FirstN(s, n) == SubSeq(s, 1, Min(n, Len(s)))

\* lines 94-117: the song is in the dataset; sr is the answer of
\* search_tracks(query, limit=1) and ti that of get_track_info
TitleInDataset(db, cache, onDisk, sc, fail, dataset_features, sr, ti) ==
    IF sr.raised # "no"
    THEN RequestFailed(db, cache, "spotify_title", sr.raised, sr.svc, sr.now)
    ELSE IF sr.tracks = <<>>
    THEN RequestDone("spotify_title",
                     SpotifyTail(db, cache, onDisk, "None",
                                 MergeDataset("None", dataset_features), fail),
                     sr.svc, sr.now)
    ELSE IF ti.raised # "no"
    THEN RequestFailed(db, cache, "spotify_title", ti.raised, ti.svc, ti.now)
    ELSE RequestDone("spotify_title",
                     SpotifyTail(db, cache, onDisk, sr.tracks[1].id,
                                 MergeDataset(sr.tracks[1].id, dataset_features),
                                 fail),
                     ti.svc, ti.now)

\* lines 119-158: the song is not in the dataset; sr is the answer of
\* search_tracks(query, limit=5) and c the candidate found among its tracks
TitleNotInDataset(db, cache, onDisk, fail, sr, c) ==
    IF sr.raised # "no"
    THEN RequestFailed(db, cache, "spotify_search", sr.raised, sr.svc, sr.now)
    ELSE IF sr.tracks = <<>>
    THEN [db |-> db, MODEL |-> cache, svc |-> sr.svc, now |-> sr.now,
          last |-> [NoLast EXCEPT !.op = "spotify_search", !.status = 404,
                                  !.error = "not_on_spotify"]]
    ELSE IF ~c.found
    THEN [db |-> db, MODEL |-> cache, svc |-> c.svc, now |-> c.now,
          last |-> [NoLast EXCEPT !.op = "spotify_search", !.status = 400,
                                  !.error = "not_in_dataset",
                                  !.hints = [i \in 1..Min(3, Len(sr.tracks)) |->
                                                Hint(sr.tracks[i])]]]
    ELSE RequestDone("spotify_search",
                     SpotifyTail(db, cache, onDisk, c.track_id, c.audio, fail),
                     c.svc, c.now)

\* predict_from_spotify with title and artist, after the lookup in the
\* dataset
TitleLookedUp(db, cache, onDisk, svc, now, cr, items, sc, fail, dataset_features) ==
    IF dataset_features.found
    THEN Only({Only({TitleInDataset(db, cache, onDisk, sc, fail,
                                    dataset_features, sr, ti) :
                         ti \in {_make_request(sr.svc, sr.now, cr, sc.info)}}) :
                   sr \in {search_tracks(db.songs, svc, now, cr,
                                         FirstN(items, 1), sc)}})
    ELSE Only({Only({TitleNotInDataset(db, cache, onDisk, fail, sr, c) :
                         c \in {TryCandidates(db.songs, sr.svc, sr.now, cr,
                                              sr.tracks, sc)}}) :
                   sr \in {search_tracks(db.songs, svc, now, cr, items, sc)}})

\* predict_from_spotify with title and artist (lines 88-158, then 176-350);
\* items is the catalog's answer to the search query, best match first
predict_from_spotify_title(db, cache, onDisk, svc, now, cr, rawTitle, rawArtist, items, sc, fail) ==
    Only({TitleLookedUp(db, cache, onDisk, svc, now, cr, items, sc, fail,
                        dataset_features) :
              dataset_features \in
                  {get_audio_features_from_dataset(db.songs, strip(rawTitle),
                                                   strip(rawArtist))}})

(***************************************************************************)
(* views.py: predict_manual                                                *)
(***************************************************************************)
\* a JSON value of the request body: a number, a string holding an integer
\* literal, a string holding a decimal literal, another string, or null
Json(kind, v) == [kind |-> kind, v |-> v]

IntRaises(j) == j.kind \in {"strf", "bad", "null"}
FloatRaises(j) == j.kind \in {"bad", "null"}

IntFields == {"duration_ms", "mode"}

\* lines 446-468: the fields that are missing, whether a conversion raises,
\* and the validated values
missing_fields(fields) == {k \in FeatureKeys : k \notin DOMAIN fields}

conversion_raises(fields) ==
    \E k \in FeatureKeys :
        IF k \in IntFields THEN IntRaises(fields[k]) ELSE FloatRaises(fields[k])

validated_of(fields) ==
    [duration_ms |-> int(fields["duration_ms"].v),
     danceability |-> float(fields["danceability"].v),
     energy |-> float(fields["energy"].v),
     valence |-> float(fields["valence"].v),
     acousticness |-> float(fields["acousticness"].v),
     instrumentalness |-> float(fields["instrumentalness"].v),
     explicit |-> float(fields["explicit"].v),
     loudness |-> float(fields["loudness"].v),
     tempo |-> float(fields["tempo"].v),
     mode |-> int(fields["mode"].v)]

\* predict_manual (lines 437-524); body.title and body.artist are NoneStr
\* when the key is absent
predict_manual(db, cache, onDisk, body, fail) ==
    LET validated == validated_of(body.fields)
        title == IF body.title = NoneStr THEN <<"U">> ELSE body.title
        artist == IF body.artist = NoneStr THEN <<>> ELSE body.artist
        model == load_model(cache, onDisk)
        m == predict_song(model, prepare_features(validated))
        rec == [is_hit |-> m.is_hit, confidence |-> m.confidence,
                adjusted_by_dataset |-> FALSE]
        withSong == SongCreate(db, SongNew("None", title, artist, NoneInt, "None",
                                           validated, validated.explicit = Num(1),
                                           "request"))
        p == Persist(db, withSong, withSong.songSeq, rec, m.is_hit, m.confidence,
                     "None", NoneInt, fail)
    IN IF missing_fields(body.fields) # {}
       THEN [db |-> db, MODEL |-> cache,
             last |-> [NoLast EXCEPT !.op = "manual", !.status = 400,
                                     !.error = "missing_fields",
                                     !.query = body.fields]]
       ELSE IF conversion_raises(body.fields)
       THEN [db |-> db, MODEL |-> cache,
             last |-> [NoLast EXCEPT !.op = "manual", !.status = 400,
                                     !.error = "invalid_value",
                                     !.query = body.fields]]
       ELSE [db |-> p.db, MODEL |-> model,
             last |-> IF p.status # 200
                      THEN [NoLast EXCEPT !.op = "manual", !.status = p.status,
                                          !.error = "database",
                                          !.query = body.fields]
                      ELSE [NoLast EXCEPT !.op = "manual", !.status = p.status,
                                          !.query = body.fields,
                                          !.f = validated,
                                          !.model_hit = m.is_hit,
                                          !.model_confidence = m.confidence,
                                          !.is_hit = rec.is_hit,
                                          !.confidence = rec.confidence,
                                          !.song = withSong.songSeq,
                                          !.prediction = p.prediction]]

(***************************************************************************)
(* management/commands: the bulk imports and clear_database                *)
(***************************************************************************)
\* a numeric cell of the CSV file: a value, or missing (pandas NaN)
Cell(v) == [nan |-> FALSE, v |-> v]
NaNCell == [nan |-> TRUE, v |-> 0]

CsvRow(track_id, track_name, artists, popularity, f, explicit) ==
    [track_id |-> track_id, track_name |-> track_name, artists |-> artists,
     popularity |-> popularity, f |-> f, explicit |-> explicit]

\* int(row.get(col, 0)) raises ValueError on NaN
RowRaises(row) == row.f.duration_ms.nan \/ row.f.mode.nan

\* lines 104-130 of import_complete_dataset (86-112 of import_dataset):
\* the Song built from one row
SongOfRow(row) ==
    LET popularity == IF row.popularity.nan THEN NoneInt ELSE row.popularity.v
        is_hit == IF popularity = NoneInt THEN "None"
                  ELSE IF popularity >= 50 THEN "True" ELSE "False"
    IN SongNew(IF row.track_id = "NaN" THEN "None" ELSE row.track_id,
               row.track_name, row.artists, popularity, is_hit,
               Features(int(row.f.duration_ms.v), float(row.f.danceability.v),
                        float(row.f.energy.v), float(row.f.valence.v),
                        float(row.f.acousticness.v),
                        float(row.f.instrumentalness.v),
                        float(row.f.loudness.v), float(row.f.tempo.v),
                        int(row.f.mode.v)),
               row.explicit, "import")

\* Song.objects.bulk_create(records, ignore_conflicts=True): the rows are
\* inserted as built (save() is not called); Song has no unique column
RECURSIVE bulk_create(_, _)
bulk_create(db, records) ==
    IF records = <<>> THEN db
    ELSE bulk_create([db EXCEPT !.songs = Append(db.songs,
                                     [Head(records) EXCEPT !.id = db.songSeq + 1]),
                                !.songSeq = db.songSeq + 1],
                     Tail(records))

\* the loop over the rows: st.db is the database, st.records the batch
\* not yet written; skipExisting is import_dataset's check on track_id
RECURSIVE ImportRows(_, _, _, _)
ImportRows(st, rows, batch_size, skipExisting) ==
    IF rows = <<>> THEN st
    ELSE LET row == Head(rows)
             exists == skipExisting /\ RowsWithTrackId(st.db.songs, row.track_id) # <<>>
             records == Append(st.records, SongOfRow(row))
             next == IF exists \/ RowRaises(row) THEN st
                     ELSE IF Len(records) >= batch_size
                     THEN [db |-> bulk_create(st.db, records), records |-> <<>>]
                     ELSE [db |-> st.db, records |-> records]
         IN ImportRows(next, Tail(rows), batch_size, skipExisting)

ImportAll(db, rows, batch_size, skipExisting) ==
    LET st == ImportRows([db |-> db, records |-> <<>>], rows, batch_size, skipExisting)
    IN bulk_create(st.db, st.records)

\* clear_database, and the clearing step of import_complete_dataset
Cleared(db) == [db EXCEPT !.songs = <<>>, !.predictions = <<>>, !.audits = <<>>]

\* a CSV file given to a command
CsvFile(exists, readable, columns, rows) ==
    [exists |-> exists, readable |-> readable, columns |-> columns, rows |-> rows]

\* import_dataset.Command.handle
import_dataset(db, file, batch_size) ==
    IF ~file.exists \/ ~file.readable \/ ~file.columns THEN db
    ELSE ImportAll(db, file.rows, batch_size, TRUE)

\* import_complete_dataset.Command.handle
import_complete_dataset(db, file, batch_size, no_clear) ==
    LET start == IF no_clear THEN db ELSE Cleared(db)
    IN IF ~file.exists THEN db
       ELSE IF ~file.readable \/ ~file.columns THEN start
       ELSE ImportAll(start, file.rows, batch_size, FALSE)

(***************************************************************************)
(* Inputs of the model                                                     *)
(***************************************************************************)
MaxResults == 1

\* the network's answers
TokOk == TokenResponse(200, "tokA", 3600, 0)
TokRefused == TokenResponse(400, "None", 0, 0)

NetOk == Net(TokOk, 200, TokOk, 200)
Net404 == Net(TokOk, 404, TokOk, 200)
Net500 == Net(TokOk, 500, TokOk, 200)
NetRetryOk == Net(TokOk, 401, TokOk, 200)
NetNoToken == Net(TokRefused, 200, TokRefused, 200)

AllOk == Scenario(NetOk, NetOk, NetOk)

\* every endpoint answers, or exactly one of them fails
Scenarios ==
    {AllOk, Scenario(NetRetryOk, NetOk, NetOk), Scenario(Net500, NetOk, NetOk),
     Scenario(NetOk, Net404, NetOk), Scenario(NetOk, NetNoToken, NetOk),
     Scenario(NetOk, NetOk, Net500)}

\* the network's answers and the database's refusals for one request: the
\* database is reached only when the network answered
RequestEnvs ==
    {[sc |-> sc, fail |-> "no"] : sc \in Scenarios}
    \cup {[sc |-> AllOk, fail |-> f] : f \in FailPoints}

\* the same for a request by title and artist: the database refuses at most
\* the last write
TitleEnvs ==
    {[sc |-> sc, fail |-> "no"] : sc \in Scenarios}
    \cup {[sc |-> AllOk, fail |-> "audit"]}

\* the catalog's answers to a search: up to MaxResults distinct tracks
SearchAnswers ==
    {items \in UNION {[1..n -> Tracks] : n \in 0..MaxResults} :
        \A i, j \in 1..Len(items) : i # j => items[i] # items[j]}

\* (title, artist) pairs of requests
TitleRequests == {<<<<"C", "o">>, <<"G">>>>, <<<<" ", "z">>, <<"h">>>>}

\* bodies of manual requests
AllFields(d, da, en, va, ac, ins, ex, lo, te, mo) ==
    [duration_ms |-> d, danceability |-> da, energy |-> en, valence |-> va,
     acousticness |-> ac, instrumentalness |-> ins, explicit |-> ex,
     loudness |-> lo, tempo |-> te, mode |-> mo]

N(v) == Json("num", v)

FieldsA ==
    AllFields(N(25), N(8), N(9), N(2), N(6), N(0), N(Num(1)), N(-50),
              N(Num(120)), N(Num(1)))

Without(fields, k) == [x \in (DOMAIN fields) \ {k} |-> fields[x]]

ManualBodies ==
    {[title |-> <<"Z">>, artist |-> <<"H">>, fields |-> FieldsA],
     [title |-> NoneStr, artist |-> NoneStr, fields |-> Without(FieldsA, "mode")]}

\* CSV files
CellFeatures(d, da, en, va, ac, ins, lo, te, mo) ==
    Features(Cell(d), Cell(da), Cell(en), Cell(va), Cell(ac), Cell(ins),
             Cell(lo), Cell(te), Cell(mo))

RowComedy ==
    CsvRow("t1", <<"C", "o">>, <<"G", ",", " ", "H">>, Cell(73),
           CellFeatures(Num(3), 6, 4, 7, 1, 0, -67, Num(88), Num(0)), FALSE)

\* a row without popularity
RowUnrated ==
    CsvRow("t2", <<"Z">>, <<"H">>, NaNCell,
           CellFeatures(Num(2), 7, 9, 2, 6, 0, -50, Num(120), Num(1)), TRUE)

Files ==
    {CsvFile(TRUE, TRUE, TRUE, <<RowComedy>>),
     CsvFile(TRUE, TRUE, TRUE, <<RowUnrated>>),
     CsvFile(FALSE, FALSE, FALSE, <<>>)}

BatchSizes == {1, 1000}

(***************************************************************************)
(* The sequential specification: one request or command at a time          *)
(***************************************************************************)
Threads == {"w1", "w2"}

IdleThreads == [t \in Threads |-> "idle"]
\* the locals of one caller: the accessor it ran last (op), the instance it
\* uses (svc), for a token call the cache and the time it found (before, at),
\* the time it ended (ended), the answer of the token endpoint (resp), what
\* it raised and returned, the POSTs it sent, the model handle it got, and
\* for a _make_request call the GETs it sent, the calls of
\* _get_access_token() it made after a 401 and the status of the response
\* that ended it; for a get_audio_features call what the fetch of the
\* metadata and the call of the audio-features endpoint raised
NoLocal ==
    [op |-> "None", svc |-> 0, before |-> NewService, at |-> 0, ended |-> 0,
     resp |-> TokRefused, raised |-> "no", token |-> "None", posts |-> 0,
     model |-> "None", gets |-> 0, refreshes |-> 0, first |-> 0, final |-> 0,
     info |-> "None", feat |-> "None"]
NoLocals == [t \in Threads |-> NoLocal]
NoNetlog == [loads |-> 0, posts |-> {}, instances |-> 0]

db == DB(songs, predictions, audits, songSeq, predSeq)

WithinBounds(d) == d.songSeq <= MaxSongs /\ d.predSeq <= MaxPreds

SetDb(d) ==
    /\ songs' = d.songs
    /\ predictions' = d.predictions
    /\ audits' = d.audits
    /\ songSeq' = d.songSeq
    /\ predSeq' = d.predSeq

Init ==
    /\ songs = <<>>
    /\ predictions = <<>>
    /\ audits = <<>>
    /\ songSeq = 0
    /\ predSeq = 0
    /\ artifact \in {"forest", "logistic", "svm"}
    /\ MODEL = "None"
    /\ _spotify_service = 0
    /\ services = <<>>
    /\ clock = 0
    /\ credentials = TRUE
    /\ last = NoLast
    /\ pc = IdleThreads
    /\ local = NoLocals
    /\ netlog = NoNetlog

\* the effect of a handler that uses the catalog client
SetRequest(g, out) ==
    /\ WithinBounds(out.db)
    /\ SetDb(out.db)
    /\ MODEL' = out.MODEL
    /\ _spotify_service' = g.instance
    /\ services' = [g.services EXCEPT ![g.instance] = out.svc]
    /\ clock' = out.now
    /\ last' = out.last
    /\ UNCHANGED <<artifact, credentials, pc, local, netlog>>

PredictFromSpotifyId ==
    \E track_id \in Tracks, env \in RequestEnvs :
        \E g \in {get_spotify_service(_spotify_service, services)} :
            \E out \in {predict_from_spotify_id(db, MODEL, artifact,
                             g.services[g.instance], clock, credentials,
                             track_id, env.sc, env.fail)} :
                SetRequest(g, out)

PredictFromSpotifyTitle ==
    \E req \in TitleRequests, items \in SearchAnswers, env \in TitleEnvs :
        \E g \in {get_spotify_service(_spotify_service, services)} :
            \E out \in {predict_from_spotify_title(db, MODEL, artifact,
                             g.services[g.instance], clock, credentials,
                             req[1], req[2], items, env.sc, env.fail)} :
                SetRequest(g, out)

PredictManual ==
    \E body \in ManualBodies, fail \in FailPoints :
        \E out \in {predict_manual(db, MODEL, artifact, body, fail)} :
           /\ WithinBounds(out.db)
           /\ SetDb(out.db)
           /\ MODEL' = out.MODEL
           /\ last' = out.last
           /\ UNCHANGED <<artifact, _spotify_service, services, clock,
                          credentials, pc, local, netlog>>

ImportDataset ==
    \E file \in Files, batch_size \in BatchSizes :
        \E out \in {import_dataset(db, file, batch_size)} :
           /\ WithinBounds(out)
           /\ SetDb(out)
           /\ last' = [NoLast EXCEPT !.op = "import_dataset"]
           /\ UNCHANGED <<artifact, MODEL, _spotify_service, services, clock,
                          credentials, pc, local, netlog>>

ImportCompleteDataset ==
    \E file \in Files, batch_size \in BatchSizes, no_clear \in BOOLEAN :
        \E out \in {import_complete_dataset(db, file, batch_size, no_clear)} :
           /\ WithinBounds(out)
           /\ SetDb(out)
           /\ last' = [NoLast EXCEPT !.op = "import_complete_dataset"]
           /\ UNCHANGED <<artifact, MODEL, _spotify_service, services, clock,
                          credentials, pc, local, netlog>>

ClearDatabase ==
    /\ SetDb(Cleared(db))
    /\ last' = [NoLast EXCEPT !.op = "clear_database"]
    /\ UNCHANGED <<artifact, MODEL, _spotify_service, services, clock,
                   credentials, pc, local, netlog>>

\* requests by identifier, manual requests and the management commands
Next ==
    \/ PredictFromSpotifyId
    \/ PredictManual
    \/ ImportDataset
    \/ ImportCompleteDataset
    \/ ClearDatabase

Spec == Init /\ [][Next]_vars

\* requests by title and artist, manual requests and the management commands
NextTitle ==
    \/ PredictFromSpotifyTitle
    \/ PredictManual
    \/ ImportDataset
    \/ ImportCompleteDataset
    \/ ClearDatabase

InitTitle == Init /\ artifact = "forest"

SpecTitle == InitTitle /\ [][NextTitle]_vars

(***************************************************************************)
(* Reconciliation of the model's label with the reference label            *)
(***************************************************************************)
\* the last request was answered with a prediction
Answered == last.status = 200

\* the Prediction row stored by the last request
StoredPrediction ==
    LET P(r) == r.id = last.prediction IN SelectSeq(predictions, P)[1]

HasReference == last.source = "dataset"

Agrees == Truthy(last.is_hit_in_dataset) = last.model_hit

\* C1: a prediction whose features do not have provenance 'dataset', and
\* every manual prediction, keeps the model's label and the model's
\* confidence and is not marked adjusted, in the response and in the stored
\* Prediction row.
C1_NoReferenceKeepsModel ==
    (Answered /\ ~HasReference) =>
        /\ last.is_hit = last.model_hit
        /\ last.confidence = last.model_confidence
        /\ last.adjusted_by_dataset = FALSE
        /\ StoredPrediction.is_hit = last.model_hit
        /\ StoredPrediction.confidence = last.model_confidence
        /\ StoredPrediction.adjusted_by_dataset = FALSE
        /\ StoredPrediction.dataset_label = "None"

C1_Witness ==
    /\ Answered
    /\ last.op = "spotify_id"
    /\ last.source = "spotify_api"
    /\ last.model_hit
    /\ last.model_confidence = 9200
    /\ last.confidence = 9200
    /\ StoredPrediction.dataset_label = "None"

\* C2: when the reference label equals the model's label, the final label
\* is the model's, the final confidence is min(95.0, model_confidence + 5.0)
\* and the prediction is not marked adjusted.
C2_AgreementBoost ==
    (Answered /\ HasReference /\ Agrees) =>
        /\ last.is_hit = last.model_hit
        /\ last.confidence = Min(9500, last.model_confidence + 500)
        /\ last.adjusted_by_dataset = FALSE
        /\ StoredPrediction.confidence = Min(9500, last.model_confidence + 500)
        /\ StoredPrediction.adjusted_by_dataset = FALSE

C2_Witness ==
    /\ Answered
    /\ HasReference
    /\ Agrees
    /\ last.row_origin = "import"
    /\ last.model_hit
    /\ last.model_confidence = 9200
    /\ last.confidence = 9500

SameIdentifierTwice ==
    /\ last.op = "spotify_id" /\ last.status = 200
    /\ last'.op = "spotify_id" /\ last'.status = 200
    /\ last'.prediction # last.prediction
    /\ last'.track_id = last.track_id
    /\ last'.sc = last.sc

\* C4: two successive requests for the same catalog identifier, the catalog
\* answering the same both times and nothing in between, resolve the same
\* ten feature values and the same provenance tag.
C4_ResolutionIdempotent ==
    [][SameIdentifierTwice => (last'.f = last.f /\ last'.source = last.source)]_vars

\* C5: a reference label is attached only when the matched Song row was
\* loaded from the training corpus by an import; a row created by a
\* prediction request is never the source of a reference label.
C5_ReferenceOnlyFromCorpus ==
    (Answered /\ HasReference) => last.row_origin = "import"

\* the (title, artist) pairs a lookup is made with
Lookups ==
    {<<CatalogTrack(t).name, join(CatalogTrack(t).artists)>> : t \in Tracks}
        \cup {<<strip(r[1]), strip(r[2])>> : r \in TitleRequests}

LabelMatchesPopularity(m) == m.is_hit_in_dataset = (m.popularity >= 50)

\* C6: whenever a resolution returns provenance 'dataset', the label it
\* carries equals (popularity >= 50) for the popularity returned with it:
\* for the reference label of every answered request and for every lookup
\* against every reachable Song table.
C6_LabelIsPopularityThreshold ==
    /\ (Answered /\ HasReference) =>
           Truthy(last.is_hit_in_dataset) = (last.dataset_popularity >= 50)
    /\ \A q \in Lookups :
           LET m == get_audio_features_from_dataset(songs, q[1], q[2])
           IN m.found => LabelMatchesPopularity(m)

\* a row of popularity 73 read as HIT, and a row whose stored popularity and
\* is_hit are null read as popularity 0 and FLOP
C6_Witness ==
    /\ \E q \in Lookups :
           LET m == get_audio_features_from_dataset(songs, q[1], q[2])
           IN m.found /\ m.popularity = 73 /\ m.is_hit_in_dataset
    /\ \E q \in Lookups :
           LET m == get_audio_features_from_dataset(songs, q[1], q[2])
           IN /\ m.found /\ m.popularity = 0 /\ ~m.is_hit_in_dataset
              /\ \E i \in 1..Len(songs) :
                     /\ songs[i].id = m.row
                     /\ songs[i].popularity = NoneInt
                     /\ songs[i].is_hit = "None"

(***************************************************************************)
(* Prediction rows and their audit rows                                    *)
(***************************************************************************)
AuditsOf(id) == {i \in 1..Len(audits) : audits[i].prediction = id}

\* C7: in every reachable state every Prediction row has exactly one
\* PredictionAuditLog row and every PredictionAuditLog row references an
\* existing Prediction row.
C7_PredictionHasItsAudit ==
    /\ \A p \in 1..Len(predictions) :
           Cardinality(AuditsOf(predictions[p].id)) = 1
    /\ \A a \in 1..Len(audits) :
           \E p \in 1..Len(predictions) : predictions[p].id = audits[a].prediction

(***************************************************************************)
(* The raw verdict of the model                                            *)
(***************************************************************************)
\* c, in hundredths of a percent, is the probability p (in 1e-5) times 100
\* rounded to 2 decimals
IsRounded(c, p) == 10 * c - 5 <= p /\ p <= 10 * c + 5

\* the answers of the loaded classifier to the vector of the last request
LastClass == model_predict(MODEL, prepare_features(last.f))

LastProba == model_predict_proba(MODEL, prepare_features(last.f))

\* C19: the raw label is the class the classifier predicts, and the raw
\* confidence is the probability of the HIT class times 100 rounded to 2
\* decimals, for HIT and FLOP verdicts alike; a classifier without
\* predict_proba gives exactly 50.00.
C19_ConfidenceIsHitProbability ==
    Answered =>
        /\ last.model_hit = LastClass
        /\ model_has_proba(MODEL) => IsRounded(last.model_confidence, LastProba[2])
        /\ ~model_has_proba(MODEL) => last.model_confidence = 5000

\* the forest predicted FLOP for a vector whose HIT probability is 0.20004:
\* the raw confidence is 20.00
C19_Witness ==
    /\ Answered
    /\ MODEL = "forest"
    /\ ~last.model_hit
    /\ LastProba[2] = 20004
    /\ last.model_confidence = 2000

\* C20: the raw confidence stored and reported for a prediction is the
\* probability of the class the model predicted, times 100: for a FLOP
\* verdict the probability of FLOP, so with a two-class classifier it is
\* never below 50.
C20_ConfidenceOfPredictedClass ==
    (Answered /\ model_has_proba(MODEL)) =>
        /\ IsRounded(last.model_confidence,
                     IF last.model_hit THEN LastProba[2] ELSE LastProba[1])
        /\ last.model_confidence >= 5000
        /\ StoredPrediction.model_confidence = last.model_confidence

(***************************************************************************)
(* Requests by title and artist                                            *)
(***************************************************************************)
\* C14: a request by title and artist whose song is found in the reference
\* dataset never fails because of the catalog: when the single-result
\* search raises, returns nothing, or the fetch of the track's metadata
\* fails, the prediction is still produced from the dataset's data.
C14_EnrichmentBestEffort ==
    last.op = "spotify_title" =>
        last.error \notin {"ValueError", "HTTPError", "Exception"}

\* a candidate of the catalog search that search_tracks tags in_dataset
TaggedInDataset(h) ==
    \E i \in 1..Len(songs) :
        /\ lower(songs[i].track_name) = lower(strip(h.title))
        /\ icontains(songs[i].artists, strip(split_first(h.artist)))

\* C15: in a request by title and artist whose dataset lookup missed and
\* whose catalog search returned candidates, the not-in-training-data error
\* (with at most 3 candidate hints) is the answer only if no candidate is
\* tagged in_dataset; with a tagged candidate the request is resolved by
\* identifier and answered with a prediction.
C15_NotInTrainingIffNoCandidate ==
    last.error = "not_in_dataset" =>
        /\ Len(last.hints) <= 3
        /\ \A i \in 1..Len(last.hints) : ~TaggedInDataset(last.hints[i])

(***************************************************************************)
(* The token cache, one caller at a time                                   *)
(***************************************************************************)
MaxClock == 200

\* seconds that pass between two calls
TickSteps == {30}

\* answers of the token endpoint: a short-lived token, a token without
\* expires_in that took 10 seconds to arrive, a refusal
TokenResponses ==
    {TokenResponse(200, "tokA", 120, 0), TokenResponse(200, "tokB", NoneInt, 10),
     TokenResponse(400, "None", 0, 0)}

\* answers of the network to one _make_request call
TokenNets ==
    {Net(r1, s1, r2, s2) : r1 \in TokenResponses, r2 \in TokenResponses,
                           s1 \in {200, 401, 404}, s2 \in {200, 401, 404}}

InitToken ==
    /\ songs = <<>>
    /\ predictions = <<>>
    /\ audits = <<>>
    /\ songSeq = 0
    /\ predSeq = 0
    /\ artifact = "forest"
    /\ MODEL = "None"
    /\ _spotify_service = 1
    /\ services = <<NewService>>
    /\ clock = 0
    /\ credentials \in BOOLEAN
    /\ last = NoLast
    /\ pc = IdleThreads
    /\ local = NoLocals
    /\ netlog = NoNetlog

\* time.time() advances between two calls
Tick ==
    /\ \E d \in TickSteps : clock + d <= MaxClock /\ clock' = clock + d
    /\ UNCHANGED <<dbVars, artifact, MODEL, _spotify_service, services,
                   credentials, last, pc, local, netlog>>

\* one call of _get_access_token() on the shared instance
CallGetAccessToken ==
    \E resp \in TokenResponses :
        \E r \in {_get_access_token(services[_spotify_service], clock,
                                   credentials, resp)} :
           /\ r.now <= MaxClock
           /\ services' = [services EXCEPT ![_spotify_service] = r.svc]
           /\ clock' = r.now
           /\ local' = [local EXCEPT !["w1"] =
                            [NoLocal EXCEPT !.op = "_get_access_token",
                                            !.svc = _spotify_service,
                                            !.before = services[_spotify_service],
                                            !.at = clock,
                                            !.ended = r.now,
                                            !.resp = IF r.posts = 1 THEN resp
                                                     ELSE TokRefused,
                                            !.raised = r.raised,
                                            !.token = r.token,
                                            !.posts = r.posts]]
           /\ UNCHANGED <<dbVars, artifact, MODEL, _spotify_service,
                          credentials, last, pc, netlog>>

\* one call of _make_request(endpoint) on the shared instance
CallMakeRequest ==
    \E net \in TokenNets :
        \E r \in {_make_request(services[_spotify_service], clock, credentials, net)} :
           /\ r.now <= MaxClock
           /\ services' = [services EXCEPT ![_spotify_service] = r.svc]
           /\ clock' = r.now
           /\ local' = [local EXCEPT !["w1"] =
                            [NoLocal EXCEPT !.op = "_make_request",
                                            !.svc = _spotify_service,
                                            !.before = services[_spotify_service],
                                            !.at = clock,
                                            !.raised = r.raised,
                                            !.posts = r.posts,
                                            !.gets = r.gets,
                                            !.refreshes = r.refreshes,
                                            !.first = IF r.gets >= 1 THEN net.s1
                                                      ELSE 0,
                                            !.final = IF r.gets = 1 THEN net.s1
                                                      ELSE IF r.gets >= 2
                                                      THEN net.s2 ELSE 0]]
           /\ UNCHANGED <<dbVars, artifact, MODEL, _spotify_service,
                          credentials, last, pc, netlog>>

NextToken ==
    \/ Tick
    \/ CallGetAccessToken
    \/ CallMakeRequest

SpecToken == InitToken /\ [][NextToken]_vars

\* the last call of _get_access_token(): its locals, the cache it left
TokenCall == local["w1"]

TokenCalled == TokenCall.op = "_get_access_token"

\* a token was cached and the time was strictly before its expiry minus 60
CachedAndFresh ==
    /\ TokenCall.before.access_token # "None"
    /\ TokenCall.at < TokenCall.before.token_expires_at - 60

ReturnedCached ==
    /\ TokenCall.raised = "no"
    /\ TokenCall.token = TokenCall.before.access_token
    /\ TokenCall.posts = 0
    /\ services[TokenCall.svc] = TokenCall.before

\* one token request was sent; a 200 answer is stored with the expiry counted
\* from the time of storing, any other answer raises and leaves the cache
RequestedNewToken ==
    /\ TokenCall.posts = 1
    /\ TokenCall.resp.status = 200 =>
           /\ TokenCall.raised = "no"
           /\ TokenCall.token = TokenCall.resp.access_token
           /\ services[TokenCall.svc] =
                  [access_token |-> TokenCall.resp.access_token,
                   token_expires_at |-> TokenCall.ended + expires_in_of(TokenCall.resp)]
    /\ TokenCall.resp.status # 200 =>
           /\ TokenCall.raised # "no"
           /\ services[TokenCall.svc] = TokenCall.before

RaisedUnconfigured ==
    /\ TokenCall.posts = 0
    /\ TokenCall.raised = "ValueError"
    /\ services[TokenCall.svc] = TokenCall.before

\* C10 as stated: the cached token is returned without a network call if
\* and only if a token is cached and now < token_expires_at - 60; otherwise
\* a new token is requested, stored on success with
\* token_expires_at = now + expires_in, and on failure the call raises
\* leaving the cache unchanged.
C10_AsStated ==
    TokenCalled =>
        /\ CachedAndFresh => ReturnedCached
        /\ (TokenCall.raised = "no" /\ TokenCall.posts = 0) => CachedAndFresh
        /\ ~CachedAndFresh => RequestedNewToken

\* C10 amended: as stated when the client credentials are configured; when
\* they are not and no fresh token is cached, the call raises ValueError
\* without any network call and leaves the cache unchanged.
C10_RefreshMargin ==
    TokenCalled =>
        /\ CachedAndFresh => ReturnedCached
        /\ (TokenCall.raised = "no" /\ TokenCall.posts = 0) => CachedAndFresh
        /\ (~CachedAndFresh /\ credentials) => RequestedNewToken
        /\ (~CachedAndFresh /\ ~credentials) => RaisedUnconfigured

\* a call made exactly 60 seconds before the expiry of the cached token
\* requests a new one and stores it
C10_Witness ==
    /\ TokenCalled
    /\ TokenCall.before.access_token # "None"
    /\ TokenCall.at = TokenCall.before.token_expires_at - 60
    /\ TokenCall.posts = 1
    /\ TokenCall.resp.status = 200
    /\ services[TokenCall.svc].token_expires_at =
           TokenCall.ended + expires_in_of(TokenCall.resp)

(***************************************************************************)
(* Authenticated requests: the retry after a 401 and the 404               *)
(***************************************************************************)
\* the last call of _make_request(): its locals
RequestCall == local["w1"]

RequestCalled == RequestCall.op = "_make_request"

\* C11 as stated: every call of _make_request sends at most two GETs; a 401
\* answer to the first GET triggers exactly one token refresh and exactly
\* one retry of the request; a 401 answer to the retry ends the call with an
\* error without another refresh.
C11_AsStated ==
    RequestCalled =>
        /\ RequestCall.gets <= 2
        /\ RequestCall.first = 401 =>
               /\ RequestCall.refreshes = 1
               /\ RequestCall.gets = 2
               /\ RequestCall.final = 401 => RequestCall.raised # "no"
        /\ RequestCall.first # 401 => RequestCall.refreshes = 0

\* C11 amended: every call of _make_request sends at most two GETs; a 401
\* answer to the first GET triggers exactly one token refresh; when the
\* refresh yields a token the request is retried exactly once, and when the
\* refresh raises the call ends with that error without a retry; a 401
\* answer to the retry ends the call with an error without another refresh.
C11_OneRefreshOneRetry ==
    RequestCalled =>
        /\ RequestCall.gets <= 2
        /\ RequestCall.first = 401 =>
               /\ RequestCall.refreshes = 1
               /\ RequestCall.gets \in {1, 2}
               /\ RequestCall.gets = 1 =>
                      RequestCall.raised \in {"Exception", "ValueError"}
               /\ (RequestCall.gets = 2 /\ RequestCall.final = 401) =>
                      RequestCall.raised = "HTTPError"
        /\ RequestCall.first # 401 => RequestCall.refreshes = 0

\* the first GET was answered 401, the token was refreshed, and the retry
\* was answered 401 too: the call raised after two GETs
C11_Witness ==
    /\ RequestCalled
    /\ RequestCall.first = 401
    /\ RequestCall.final = 401
    /\ RequestCall.gets = 2
    /\ RequestCall.refreshes = 1
    /\ RequestCall.raised = "HTTPError"

\* C12: when the response that ends a call of _make_request has status 404,
\* whether it answers the first GET or the retry after a 401, the call raises
\* the not-found error (ValueError), unlike the other HTTP failures.
C12_NotFoundIsValueError ==
    (RequestCalled /\ RequestCall.final = 404) => RequestCall.raised = "ValueError"

(***************************************************************************)
(* The reference-dataset lookup and the resolution by identifier           *)
(***************************************************************************)
\* rows of the reference dataset: a title that is a prefix of another one,
\* a row of the catalog's track t1 with another duration and explicit flag
\* than the catalog's, and a row whose title begins with the title of the
\* catalog's track t2
ReferenceFiles ==
    LET RowShort ==
            CsvRow("t3", <<"C">>, <<"G">>, Cell(10),
                   CellFeatures(Num(4), 1, 2, 3, 4, 5, -30, Num(70), Num(1)), TRUE)
        RowRemix ==
            CsvRow("t4", <<"C", "o">>, <<"G">>, Cell(80),
                   CellFeatures(Num(5) + 5, 2, 3, 4, 5, 6, -20, Num(90), Num(0)),
                   TRUE)
        RowLive ==
            CsvRow("t6", <<"Z", "o">>, <<"H">>, Cell(55),
                   CellFeatures(Num(6), 3, 4, 5, 6, 7, -10, Num(60), Num(1)), FALSE)
    IN {CsvFile(TRUE, TRUE, TRUE, <<r>>) :
            r \in {RowComedy, RowUnrated, RowShort, RowRemix, RowLive}}

\* arguments of the lookup, each with the title and the first artist the
\* lookup is to match on
Queries ==
    LET Query(title, artist, title_clean, first_artist) ==
            [title |-> title, artist |-> artist, title_clean |-> title_clean,
             first_artist |-> first_artist]
    IN
    {Query(<<"c">>, <<"g">>, <<"c">>, <<"g">>),
     Query(<<" ", "c", "o", " ">>, <<" ", "g", " ", ",", "x">>, <<"c", "o">>, <<"g">>),
     Query(<<"o">>, <<"H">>, <<"o">>, <<"H">>),
     Query(<<"C", "o">>, <<"x", ",", "G">>, <<"C", "o">>, <<"x">>),
     Query(<<"z">>, <<"g">>, <<"z">>, <<"g">>)}

\* the answers of the catalog to one resolution by identifier
ResolveScenarios ==
    {Scenario(NetOk, i, f) : i \in {NetOk, Net404, NetRetryOk},
                             f \in {NetOk, Net404, Net500}}

InitResolve == Init /\ artifact = "forest"

\* import_dataset of one file of the reference dataset
ImportReference ==
    \E file \in ReferenceFiles :
        \E out \in {import_dataset(db, file, 1000)} :
           /\ WithinBounds(out)
           /\ SetDb(out)
           /\ last' = [NoLast EXCEPT !.op = "import_dataset"]
           /\ local' = NoLocals
           /\ UNCHANGED <<artifact, MODEL, _spotify_service, services, clock,
                          credentials, pc, netlog>>

\* one call of get_audio_features_from_dataset(track_name, artist_name)
CallLookup ==
    \E q \in Queries :
        \E m \in {get_audio_features_from_dataset(songs, q.title, q.artist)} :
           /\ last' = [NoLast EXCEPT !.op = "get_audio_features_from_dataset",
                                     !.query = q,
                                     !.song = IF m.found THEN m.row ELSE 0,
                                     !.source = IF m.found THEN m.source ELSE "None"]
           /\ local' = NoLocals
           /\ UNCHANGED <<dbVars, artifact, MODEL, _spotify_service, services,
                          clock, credentials, pc, netlog>>

\* one call of get_audio_features(track_id) on the shared instance
CallGetAudioFeatures ==
    \E track_id \in Tracks, sc \in ResolveScenarios :
        \E g \in {get_spotify_service(_spotify_service, services)} :
            \E r \in {get_audio_features(songs, g.services[g.instance], clock,
                                          credentials, track_id, sc)} :
               /\ _spotify_service' = g.instance
               /\ services' = [g.services EXCEPT ![g.instance] = r.svc]
               /\ clock' = r.now
               /\ last' = [NoLast EXCEPT !.op = "get_audio_features",
                                         !.track_id = track_id,
                                         !.source = r.audio.source,
                                         !.f = r.audio.f,
                                         !.song = r.audio.row,
                                         !.error = r.raised]
               /\ local' = [local EXCEPT !["w1"] =
                                [NoLocal EXCEPT !.op = "get_audio_features",
                                                !.info = r.info,
                                                !.feat = r.feat,
                                                !.gets = r.feat_gets]]
               /\ UNCHANGED <<dbVars, artifact, MODEL, credentials, pc, netlog>>

\* one call of search_tracks(query, limit) on the shared instance; items
\* is the catalog's answer to the query
CallSearchTracks ==
    \E items \in SearchAnswers, search \in {NetOk, Net500} :
        \E g \in {get_spotify_service(_spotify_service, services)} :
            \E r \in {search_tracks(songs, g.services[g.instance], clock,
                                     credentials, items,
                                     Scenario(search, NetOk, NetOk))} :
               /\ _spotify_service' = g.instance
               /\ services' = [g.services EXCEPT ![g.instance] = r.svc]
               /\ clock' = r.now
               /\ last' = [NoLast EXCEPT !.op = "search_tracks",
                                         !.hints = r.tracks,
                                         !.error = r.raised]
               /\ local' = NoLocals
               /\ UNCHANGED <<dbVars, artifact, MODEL, credentials, pc, netlog>>

NextResolve ==
    \/ ImportReference
    \/ CallLookup
    \/ CallGetAudioFeatures
    \/ CallSearchTracks

SpecResolve == InitResolve /\ [][NextResolve]_vars

\* the rows the lookup by (title, first artist) may match for a track of the
\* catalog: the artists contain the first artist, the title contains the
\* catalog's title
MatchingRows(t) ==
    {i \in 1..Len(songs) :
        /\ icontains(songs[i].artists, CatalogTrack(t).artists[1])
        /\ icontains(songs[i].track_name, CatalogTrack(t).name)}

\* the ten feature values of a row of the dataset
RowFeatures(row) ==
    AllFields(row.duration_ms, row.danceability, row.energy, row.valence,
              row.acousticness, row.instrumentalness,
              IF row.explicit THEN Num(1) ELSE 0, row.loudness, row.tempo,
              row.mode)

Resolved == last.op = "get_audio_features" /\ local["w1"].info = "no"

ExactMatches ==
    {i \in 1..Len(songs) :
        /\ lower(songs[i].track_name) = lower(last.query.title_clean)
        /\ icontains(songs[i].artists, last.query.first_artist)}

ContainsMatches ==
    {i \in 1..Len(songs) :
        /\ icontains(songs[i].track_name, last.query.title_clean)
        /\ icontains(songs[i].artists, last.query.first_artist)}

LookedUp == last.op = "get_audio_features_from_dataset"

\* C16: the lookup matches on the first artist of the comma-separated list
\* only, trimmed, case-insensitively as a substring of the row's artists;
\* it returns a row whose title equals the requested (trimmed) title
\* case-insensitively whenever there is one, a row whose title contains it
\* only when there is none, and nothing when neither exists.
C16_ExactThenContains ==
    LookedUp =>
        IF ExactMatches # {}
        THEN \E i \in ExactMatches : songs[i].id = last.song
        ELSE IF ContainsMatches # {}
        THEN \E i \in ContainsMatches : songs[i].id = last.song
        ELSE last.song = 0

\* the title "c" was looked up while a newer row's title merely contains
\* it: the older row with the equal title was returned
C16_Witness ==
    /\ LookedUp
    /\ last.query.title_clean = <<"c">>
    /\ \E i \in ExactMatches :
           /\ songs[i].id = last.song
           /\ \E j \in ContainsMatches \ ExactMatches : j > i

(***************************************************************************)
(* The feature vector and the validation of manual requests                *)
(***************************************************************************)
\* a Python dict as the sequence of its (key, value) items in insertion
\* order; d[k] is the value of the item with key k
dict_of(items) ==
    [k \in {items[i][1] : i \in 1..Len(items)} |->
        items[CHOOSE i \in 1..Len(items) : items[i][1] = k][2]]

\* mappings with the ten keys in several orders (two assignments of values,
\* rotated and reversed), with and without a key that is not a feature
Mappings ==
    LET ItemsA ==
            <<<<"duration_ms", 25>>, <<"danceability", 8>>, <<"energy", 9>>,
              <<"valence", 2>>, <<"acousticness", 6>>,
              <<"instrumentalness", 0>>, <<"explicit", 10>>,
              <<"loudness", -50>>, <<"tempo", 1200>>, <<"mode", 1>>>>
        ItemsB ==
            <<<<"duration_ms", 1>>, <<"danceability", 2>>, <<"energy", 3>>,
              <<"valence", 4>>, <<"acousticness", 5>>,
              <<"instrumentalness", 7>>, <<"explicit", 0>>,
              <<"loudness", -9>>, <<"tempo", 11>>, <<"mode", 10>>>>
        Rotate(s, k) == [i \in 1..Len(s) |-> s[((i + k - 1) % Len(s)) + 1]]
        bases == {ItemsA, ItemsB, ItemsA \o <<<<"title", 77>>>>}
        rotated == {Rotate(b, k) : b \in bases, k \in 0..9}
    IN rotated \cup {Reverse(m) : m \in rotated}

\* bodies of manual requests: accepted ones, with a key missing, with a
\* value that is no number, and with duration_ms or mode given as a string
ManualBodiesAll ==
    LET BodyOf(fields) == [title |-> <<"Z">>, artist |-> <<"H">>, fields |-> fields]
    IN
    {BodyOf(FieldsA),
     BodyOf(Without(FieldsA, "mode")),
     BodyOf(Without([FieldsA EXCEPT !.tempo = Json("bad", 0)], "energy")),
     BodyOf([FieldsA EXCEPT !.tempo = Json("bad", 0)]),
     BodyOf([FieldsA EXCEPT !.energy = Json("null", 0)]),
     BodyOf([FieldsA EXCEPT !.energy = Json("strf", 9)]),
     BodyOf([FieldsA EXCEPT !.mode = Json("stri", Num(1))]),
     BodyOf([FieldsA EXCEPT !.duration_ms = Json("strf", 25)]),
     BodyOf([FieldsA EXCEPT !.mode = Json("strf", 5)])}

InitManual == Init /\ artifact = "forest"

\* one call of prepare_features(user_input)
CallPrepareFeatures ==
    \E items \in Mappings :
        /\ last' = [NoLast EXCEPT !.op = "prepare_features",
                                  !.query = [items |-> items,
                                             vector |-> prepare_features(dict_of(items))]]
        /\ UNCHANGED <<dbVars, artifact, MODEL, _spotify_service, services,
                       clock, credentials, pc, local, netlog>>

\* POST /api/predict/manual/ with any of the bodies
PredictManualAnyBody ==
    \E body \in ManualBodiesAll, fail \in {"no", "audit"} :
        \E out \in {predict_manual(db, MODEL, artifact, body, fail)} :
           /\ WithinBounds(out.db)
           /\ SetDb(out.db)
           /\ MODEL' = out.MODEL
           /\ last' = out.last
           /\ UNCHANGED <<artifact, _spotify_service, services, clock,
                          credentials, pc, local, netlog>>

\* lines 194-224 of predict_from_spotify run on a verdict of the model and
\* a resolution: the model's confidence is a percentage rounded to two
\* places, above 50 only for the label HIT and below 50 only for FLOP; the
\* reference label is present only with provenance 'dataset'
CallReconcile ==
    \E in_dataset \in BOOLEAN, is_hit_in_dataset \in BOOLEAN, model_hit \in BOOLEAN,
       model_confidence \in {0, 1, 2500, 4999, 5000, 5001, 5500, 8999, 9000,
                             9001, 9499, 9500, 9501, 9999, 10000} :
        /\ is_hit_in_dataset => in_dataset
        /\ IF model_hit THEN model_confidence >= 5000 ELSE model_confidence <= 5000
        /\ \E rec \in {Reconcile(in_dataset, is_hit_in_dataset, model_hit,
                                   model_confidence)} :
               last' = [NoLast EXCEPT
                           !.op = "reconcile",
                           !.source = IF in_dataset THEN "dataset" ELSE "spotify_api",
                           !.is_hit_in_dataset =
                               IF ~in_dataset THEN "None"
                               ELSE IF is_hit_in_dataset THEN "True" ELSE "False",
                           !.model_hit = model_hit,
                           !.model_confidence = model_confidence,
                           !.is_hit = rec.is_hit,
                           !.confidence = rec.confidence,
                           !.adjusted_by_dataset = rec.adjusted_by_dataset]
        /\ UNCHANGED <<dbVars, artifact, MODEL, _spotify_service, services,
                       clock, credentials, pc, local, netlog>>

NextManual ==
    \/ CallPrepareFeatures
    \/ PredictManualAnyBody
    \/ CallReconcile
    \/ ClearDatabase

SpecManual == InitManual /\ [][NextManual]_vars

PreparedFeatures == last.op = "prepare_features"

\* C17: for every mapping that holds the ten required keys with numeric
\* values, prepare_features returns a vector of length 10 whose i-th element
\* is the mapping's value of the i-th of duration_ms, danceability, energy,
\* valence, acousticness, instrumentalness, explicit, loudness, tempo, mode,
\* whatever the order of the keys in the mapping and whatever extra keys it
\* holds.
C17_VectorOrder ==
    PreparedFeatures =>
        /\ Len(last.query.vector) = 10
        /\ \A i \in 1..10 :
               \E j \in 1..Len(last.query.items) :
                   /\ last.query.items[j][1] = FeatureNames[i]
                   /\ last.query.items[j][2] = last.query.vector[i]

\* a mapping of eleven keys that starts with a key other than duration_ms
\* was turned into the vector
C17_Witness ==
    /\ PreparedFeatures
    /\ Len(last.query.items) = 11
    /\ last.query.items[1][1] = "mode"
    /\ last.query.vector = <<25, 8, 9, 2, 6, 0, 10, -50, 1200, 1>>

\* a value of the request body that converts to a real number: a number or
\* a string holding an integer or a decimal literal
ConvertsToReal(j) == j.kind \in {"num", "stri", "strf"}

\* C18: a manual request is rejected with the missing-feature error if and
\* only if one of the ten required keys is absent, and with the invalid-type
\* error if and only if all ten are present and some value does not convert
\* to a real number; a body whose ten values all convert to real numbers,
\* a non-integral or string-encoded duration_ms or mode included, is
\* accepted.
C18_ValidationErrors ==
    last.op = "manual" =>
        LET fields == last.query
            absent == \E k \in FeatureKeys : k \notin DOMAIN fields
            unreal == \E k \in FeatureKeys \cap DOMAIN fields :
                          ~ConvertsToReal(fields[k])
        IN /\ last.error = "missing_fields" <=> absent
           /\ last.error = "invalid_value" <=> (~absent /\ unreal)
           /\ (~absent /\ ~unreal) => last.error \in {"None", "database"}

(***************************************************************************)
(* The two caches under concurrently handled requests                      *)
(*                                                                         *)
(* Each thread handles requests that call get_spotify_service(),           *)
(* _get_access_token() and load_model() in this order; a thread may be     *)
(* preempted between any two statements, and a blocking call (the token    *)
(* POST, the read of the artifact) lets the other thread run.              *)
(***************************************************************************)
\* answers of the token endpoint to concurrent token requests
ConcResponses ==
    {TokenResponse(200, "tokA", 3600, 0), TokenResponse(200, "tokB", 120, 0)}

InitConc ==
    /\ songs = <<>>
    /\ predictions = <<>>
    /\ audits = <<>>
    /\ songSeq = 0
    /\ predSeq = 0
    /\ artifact \in {"forest", "logistic"}
    /\ MODEL = "None"
    /\ _spotify_service = 0
    /\ services = <<>>
    /\ clock = 0
    /\ credentials = TRUE
    /\ last = NoLast
    /\ pc = IdleThreads
    /\ local = NoLocals
    /\ netlog = NoNetlog

Goto(t, label) == pc' = [pc EXCEPT ![t] = label]

seqVars == <<dbVars, artifact, clock, credentials, last>>

\* a request arrives at an idle thread
StartRequest(t) ==
    /\ pc[t] = "idle"
    /\ Goto(t, "gs_check")
    /\ local' = [local EXCEPT ![t] = NoLocal]
    /\ UNCHANGED <<seqVars, MODEL, _spotify_service, services, netlog>>

\* get_spotify_service, line 331: if _spotify_service is None
GsCheck(t) ==
    /\ pc[t] = "gs_check"
    /\ IF _spotify_service = 0
       THEN Goto(t, "gs_new") /\ UNCHANGED local
       ELSE /\ Goto(t, "tk_check")
            /\ local' = [local EXCEPT ![t].svc = _spotify_service,
                                      ![t].op = "get_spotify_service"]
    /\ UNCHANGED <<seqVars, MODEL, _spotify_service, services, netlog>>

\* get_spotify_service, lines 332-333: _spotify_service = SpotifyService()
GsNew(t) ==
    /\ pc[t] = "gs_new"
    /\ services' = Append(services, NewService)
    /\ _spotify_service' = Len(services) + 1
    /\ netlog' = [netlog EXCEPT !.instances = @ + 1]
    /\ local' = [local EXCEPT ![t].svc = Len(services) + 1,
                              ![t].op = "get_spotify_service"]
    /\ Goto(t, "tk_check")
    /\ UNCHANGED <<seqVars, MODEL>>

\* _get_access_token, lines 56-60: the cached token is returned, or a token
\* request is about to be sent
TkCheck(t) ==
    /\ pc[t] = "tk_check"
    /\ LET svc == services[local[t].svc]
       IN IF svc.access_token # "None" /\ clock < svc.token_expires_at - 60
          THEN /\ Goto(t, "lm_check")
               /\ local' = [local EXCEPT ![t].token = svc.access_token,
                                         ![t].op = "_get_access_token"]
          ELSE Goto(t, "tk_post") /\ UNCHANGED local
    /\ UNCHANGED <<seqVars, MODEL, _spotify_service, services, netlog>>

\* _get_access_token, lines 64-76: the POST and its answer; every token
\* request is answered with a token of its own
TkPost(t) ==
    /\ pc[t] = "tk_post"
    /\ \E resp \in ConcResponses \ netlog.posts :
           /\ netlog' = [netlog EXCEPT !.posts = @ \cup {resp}]
           /\ local' = [local EXCEPT ![t].resp = resp, ![t].posts = 1,
                                     ![t].op = "_get_access_token"]
    /\ Goto(t, "tk_token")
    /\ UNCHANGED <<seqVars, MODEL, _spotify_service, services>>

\* _get_access_token, line 77: self.access_token = token_data['access_token']
TkStoreToken(t) ==
    /\ pc[t] = "tk_token"
    /\ services' = [services EXCEPT ![local[t].svc].access_token =
                                        local[t].resp.access_token]
    /\ Goto(t, "tk_expiry")
    /\ UNCHANGED <<seqVars, MODEL, _spotify_service, local, netlog>>

\* _get_access_token, lines 78-81: self.token_expires_at = ...; return
TkStoreExpiry(t) ==
    /\ pc[t] = "tk_expiry"
    /\ services' = [services EXCEPT ![local[t].svc].token_expires_at =
                                        clock + expires_in_of(local[t].resp)]
    /\ local' = [local EXCEPT ![t].token = services[local[t].svc].access_token]
    /\ Goto(t, "lm_check")
    /\ UNCHANGED <<seqVars, MODEL, _spotify_service, netlog>>

\* load_model, line 29: if MODEL is None
LmCheck(t) ==
    /\ pc[t] = "lm_check"
    /\ IF MODEL = "None"
       THEN Goto(t, "lm_read") /\ UNCHANGED local
       ELSE /\ Goto(t, "idle")
            /\ local' = [local EXCEPT ![t].model = MODEL, ![t].op = "load_model"]
    /\ UNCHANGED <<seqVars, MODEL, _spotify_service, services, netlog>>

\* load_model, lines 33-34: open(MODEL_PATH) and pickle.load(f)
LmRead(t) ==
    /\ pc[t] = "lm_read"
    /\ netlog' = [netlog EXCEPT !.loads = @ + 1]
    /\ local' = [local EXCEPT ![t].model = artifact, ![t].op = "load_model"]
    /\ Goto(t, "lm_store")
    /\ UNCHANGED <<seqVars, MODEL, _spotify_service, services>>

\* load_model, lines 34 and 40: MODEL = <the object read>; return MODEL
LmStore(t) ==
    /\ pc[t] = "lm_store"
    /\ MODEL' = local[t].model
    /\ Goto(t, "idle")
    /\ UNCHANGED <<seqVars, _spotify_service, services, local, netlog>>

NextConc ==
    \E t \in Threads :
        \/ StartRequest(t)
        \/ GsCheck(t)
        \/ GsNew(t)
        \/ TkCheck(t)
        \/ TkPost(t)
        \/ TkStoreToken(t)
        \/ TkStoreExpiry(t)
        \/ LmCheck(t)
        \/ LmRead(t)
        \/ LmStore(t)

SpecConc == InitConc /\ [][NextConc]_vars

\* C8: under every interleaving of concurrently handled requests the
\* artifact is opened and unpickled at most once, and a call that finds the
\* cache set returns the cached handle.
C8_ModelLoadedOnce ==
    /\ netlog.loads <= 1
    /\ \A t \in Threads :
           (pc[t] = "idle" /\ local[t].op = "load_model") => local[t].model = MODEL

\* the (access_token, token_expires_at) pair of an instance is the initial
\* one or comes from one token response
PairFromOneResponse(svc) ==
    \/ svc = NewService
    \/ \E resp \in netlog.posts :
           /\ svc.access_token = resp.access_token
           /\ svc.token_expires_at = clock + expires_in_of(resp)

NoTokenStoreInProgress == \A t \in Threads : pc[t] # "tk_expiry"

\* C9: when several requests call _get_access_token concurrently with no
\* valid token cached, at most one token request is sent and the cached
\* (access_token, token_expires_at) pair comes from one single response;
\* get_spotify_service creates at most one SpotifyService instance.
C9_TokenCacheSafe ==
    /\ Cardinality(netlog.posts) <= 1
    /\ NoTokenStoreInProgress =>
           \A i \in 1..Len(services) : PairFromOneResponse(services[i])
    /\ netlog.instances <= 1

(***************************************************************************)
(* What a request writes                                                   *)
(***************************************************************************)
\* this step answered a request by identifier with a prediction
IdRequestAnswered ==
    /\ last'.op = "spotify_id"
    /\ last'.status = 200
    /\ predSeq' = predSeq + 1

IsPrefix(s, t) == Len(s) <= Len(t) /\ SubSeq(t, 1, Len(s)) = s

\* C21: a successful predict_from_spotify request with a track identifier
\* creates exactly one Song when none has that track_id, and otherwise
\* creates none and updates the existing one, every other Song being left
\* as it was; it appends exactly one Prediction linked to that Song and one
\* audit row linked to that Prediction; and no prediction request modifies
\* or deletes an existing Prediction or PredictionAuditLog row, so that a
\* repeated request leaves one Song with one more Prediction.
C21_PersistenceOfIdRequest ==
    [][/\ last'.op \in {"spotify_id", "manual"} =>
              IsPrefix(predictions, predictions') /\ IsPrefix(audits, audits')
       /\ IdRequestAnswered =>
              LET same == RowsWithTrackId(songs, last'.track_id)
              IN /\ IF same = <<>>
                    THEN /\ Len(songs') = Len(songs) + 1
                         /\ IsPrefix(songs, songs')
                         /\ songs'[Len(songs')].id = last'.song
                    ELSE /\ Len(songs') = Len(songs)
                         /\ last'.song = same[1].id
                         /\ \A i \in 1..Len(songs) :
                                /\ songs'[i].id = songs[i].id
                                /\ songs[i].track_id # last'.track_id =>
                                       songs'[i] = songs[i]
                 /\ Len(RowsWithTrackId(songs', last'.track_id)) = 1
                 /\ RowsWithTrackId(songs', last'.track_id)[1].id = last'.song
                 /\ Len(predictions') = Len(predictions) + 1
                 /\ predictions'[Len(predictions')].id = last'.prediction
                 /\ predictions'[Len(predictions')].song = last'.song
                 /\ Len(audits') = Len(audits) + 1
                 /\ audits'[Len(audits')].prediction = last'.prediction]_vars

\* the second of two answered requests for one identifier: one Song holds
\* the identifier and both Predictions are linked to it
C21_Witness ==
    /\ Answered
    /\ last.op = "spotify_id"
    /\ Len(predictions) = 2
    /\ Len(audits) = 2
    /\ predictions[1].song = last.song
    /\ predictions[2].song = last.song
    /\ Len(RowsWithTrackId(songs, last.track_id)) = 1

(***************************************************************************)
(* The bulk imports                                                        *)
(***************************************************************************)
\* CSV files given to the commands: one whose first row has no value in
\* the column duration_ms, one that repeats a row, one of a single row, one
\* that cannot be parsed, one that lacks a required column and one that
\* does not exist
ImportFiles ==
    LET RowNoDuration ==
            CsvRow("t5", <<"C">>, <<"G">>, Cell(60),
                   [CellFeatures(0, 1, 2, 3, 4, 5, -30, Num(70), Num(1))
                        EXCEPT !.duration_ms = NaNCell],
                   FALSE)
    IN {CsvFile(TRUE, TRUE, TRUE, <<RowNoDuration, RowUnrated>>),
        CsvFile(TRUE, TRUE, TRUE, <<RowComedy, RowComedy>>),
        CsvFile(TRUE, TRUE, TRUE, <<RowComedy>>),
        CsvFile(TRUE, FALSE, FALSE, <<>>),
        CsvFile(TRUE, TRUE, FALSE, <<RowComedy>>),
        CsvFile(FALSE, FALSE, FALSE, <<>>)}

\* python manage.py import_dataset <file> --batch-size <n>
RunImportDataset ==
    \E file \in ImportFiles, batch_size \in BatchSizes :
        \E out \in {import_dataset(db, file, batch_size)} :
           /\ WithinBounds(out)
           /\ SetDb(out)
           /\ last' = [NoLast EXCEPT !.op = "import_dataset", !.query = file]
           /\ UNCHANGED <<artifact, MODEL, _spotify_service, services, clock,
                          credentials, pc, local, netlog>>

\* python manage.py import_complete_dataset --file <file> [--no-clear]
RunImportCompleteDataset ==
    \E file \in ImportFiles, batch_size \in BatchSizes, no_clear \in BOOLEAN :
        \E out \in {import_complete_dataset(db, file, batch_size, no_clear)} :
           /\ WithinBounds(out)
           /\ SetDb(out)
           /\ last' = [NoLast EXCEPT !.op = "import_complete_dataset",
                                     !.query = file]
           /\ UNCHANGED <<artifact, MODEL, _spotify_service, services, clock,
                          credentials, pc, local, netlog>>

\* the management commands and manual requests
NextImport ==
    \/ RunImportDataset
    \/ RunImportCompleteDataset
    \/ PredictManual
    \/ ClearDatabase

SpecImport == InitManual /\ [][NextImport]_vars

\* the last operation was an import that reached the loop over the rows
RowsImported ==
    /\ last.op \in {"import_dataset", "import_complete_dataset"}
    /\ last.query.exists /\ last.query.readable /\ last.query.columns

NumericColumns ==
    {"duration_ms", "danceability", "energy", "valence", "acousticness",
     "instrumentalness", "loudness", "tempo", "mode"}

\* the Song row i holds the CSV row: its numeric fields are the row's
\* values, 0 where the value is missing, and its is_hit is computed from
\* the popularity
HoldsRow(i, row) ==
    /\ songs[i].track_id = row.track_id
    /\ songs[i].origin = "import"
    /\ \A c \in NumericColumns :
           songs[i][c] = IF row.f[c].nan THEN 0 ELSE row.f[c].v
    /\ songs[i].is_hit = IF row.popularity.nan THEN "None"
                         ELSE IF row.popularity.v >= 50 THEN "True"
                         ELSE "False"

\* C22: after a bulk import every row of the file is stored, a row whose
\* value in a required numeric column is missing included, with that field
\* set to 0; such a row is neither dropped nor does it keep the other rows
\* from being imported; and the stored is_hit of every imported row is
\* popularity >= 50, computed and not read from the file.
C22_MissingNumericDefaultsToZero ==
    RowsImported =>
        \A k \in 1..Len(last.query.rows) :
            \E i \in 1..Len(songs) : HoldsRow(i, last.query.rows[k])

NoTwoSongsOfOneTrack(rows) ==
    \A i, j \in 1..Len(rows) :
        rows[i].track_id # "None" /\ rows[i].track_id = rows[j].track_id => i = j

\* C26: a run of import_dataset, on a file that repeats a track_id within
\* one batch included, keeps at most one Song row per non-null track_id.
C26_OneSongPerTrackId ==
    [][last'.op = "import_dataset" /\ NoTwoSongsOfOneTrack(songs) =>
           NoTwoSongsOfOneTrack(songs')]_vars

\* C30: a run of import_complete_dataset that aborts before importing any
\* row (the file does not exist, cannot be read or lacks a required column)
\* leaves the Song, Prediction and PredictionAuditLog tables unchanged.
C30_AbortLeavesTablesUnchanged ==
    [][/\ last'.op = "import_complete_dataset"
       /\ ~(last'.query.exists /\ last'.query.readable /\ last'.query.columns)
       => UNCHANGED <<songs, predictions, audits>>]_vars

(***************************************************************************)
(* Determinism of manual requests                                          *)
(***************************************************************************)
\* the Song a Prediction is linked to
SongOf(p) == CHOOSE r \in {songs[i] : i \in 1..Len(songs)} : r.id = p.song

\* the Predictions of manual requests: their Song has no track identifier
ManualPredictions ==
    {i \in 1..Len(predictions) :
        /\ SongOf(predictions[i]).track_id = "None"
        /\ SongOf(predictions[i]).origin = "request"}

SameVerdict(p, q) ==
    /\ p.is_hit = q.is_hit
    /\ p.confidence = q.confidence
    /\ p.model_prediction = q.model_prediction
    /\ p.model_confidence = q.model_confidence

\* C23: for a fixed classifier artifact, two predict_manual requests with
\* equal values of the ten features get the same (prediction, confidence)
\* pair, whatever was handled in between and whatever the tables hold: any
\* two stored manual Predictions whose Songs have equal features carry the
\* same verdict, and the response of an answered manual request is the
\* verdict of every stored manual Prediction with the same features.
C23_ManualDeterministic ==
    /\ \A i, j \in ManualPredictions :
           RowFeatures(SongOf(predictions[i])) = RowFeatures(SongOf(predictions[j]))
               => SameVerdict(predictions[i], predictions[j])
    /\ Answered /\ last.op = "manual" =>
           \A i \in ManualPredictions :
               RowFeatures(SongOf(predictions[i])) = last.f =>
                   /\ predictions[i].is_hit = last.is_hit
                   /\ predictions[i].confidence = last.confidence

\* two manual requests with the same features were answered, the second
\* one by the cached classifier
C23_Witness ==
    /\ Answered
    /\ last.op = "manual"
    /\ MODEL # "None"
    /\ ManualPredictions = {1, 2}
    /\ predictions[1].id # predictions[2].id
    /\ RowFeatures(SongOf(predictions[1])) = last.f
    /\ RowFeatures(SongOf(predictions[2])) = last.f
    /\ predictions[1].confidence = last.confidence

(***************************************************************************)
(* The range of the final confidence and the flags of a Prediction         *)
(***************************************************************************)
Reconciled == last.op = "reconcile"

\* C24: whenever the reference label is present and equals the model's
\* label, the final confidence is at least the model's confidence, for
\* every model confidence from 0 to 100 percent.
C24_AgreementNeverLowers ==
    (Reconciled /\ HasReference /\ Agrees) =>
        last.confidence >= last.model_confidence

\* C25: the final confidence of every stored Prediction and of every
\* answer of predict_from_spotify or predict_manual lies between 0 and 100
\* percent.
C25_ConfidenceIsAPercentage ==
    /\ \A i \in 1..Len(predictions) :
           predictions[i].confidence \in 0..10000
    /\ Answered => last.confidence \in 0..10000

\* C28: every stored Prediction is marked adjusted_by_dataset exactly when
\* its final label differs from the model's label, and it has its
\* dataset_label exactly when it has its dataset_popularity; the Prediction
\* of an answered request has both when the features had provenance
\* 'dataset' and neither otherwise.
C28_FlagsOfPrediction ==
    /\ \A i \in 1..Len(predictions) :
           /\ predictions[i].adjusted_by_dataset <=>
                  Label(predictions[i].is_hit) # predictions[i].model_prediction
           /\ predictions[i].dataset_label # "None" <=>
                  predictions[i].dataset_popularity # NoneInt
    /\ Answered =>
           IF HasReference
           THEN /\ StoredPrediction.dataset_label \in {"HIT", "FLOP"}
                /\ StoredPrediction.dataset_popularity # NoneInt
           ELSE /\ StoredPrediction.dataset_label = "None"
                /\ StoredPrediction.dataset_popularity = NoneInt

\* a request resolved from the dataset was answered with the dataset's
\* label against the model's, and an earlier Prediction without reference
\* is stored beside it
C28_Witness ==
    /\ Answered
    /\ HasReference
    /\ StoredPrediction.adjusted_by_dataset
    /\ StoredPrediction.dataset_label \in {"HIT", "FLOP"}
    /\ \E i \in 1..Len(predictions) :
           /\ predictions[i].dataset_label = "None"
           /\ ~predictions[i].adjusted_by_dataset

(***************************************************************************)
(* The Song a request by title and artist writes                           *)
(***************************************************************************)
\* the stored title, artist and ten feature values of a Song
SongData(r) == <<r.track_name, r.artists, RowFeatures(r)>>

\* C27: an answered prediction request changes the stored title, artist or
\* feature values of an existing Song only if that Song is the row the
\* features were resolved from (or already carries the resolved title): in
\* the title and artist path, with features resolved from an imported row
\* of the dataset, no Song of another title is overwritten with the data of
\* the dataset match.
C27_OnlyResolvedSongOverwritten ==
    [][/\ last'.op \in {"spotify_title", "spotify_search"}
       /\ last'.status = 200
       /\ last'.row_origin = "import"
       => \A i \in 1..Len(songs) :
              (/\ i <= Len(songs')
               /\ songs'[i].id = songs[i].id
               /\ SongData(songs'[i]) # SongData(songs[i]))
              => \/ songs[i].id = last'.row
                 \/ lower(songs[i].track_name) = lower(songs'[i].track_name)]_vars

(***************************************************************************)
(* The in_dataset tag of a search result                                   *)
(***************************************************************************)
\* resolving the track by identifier on the present tables, with a catalog
\* that answers every request, has provenance 'dataset'
ResolvesFromDataset(track_id) ==
    get_audio_features(songs, NewService, 0, TRUE, track_id, AllOk).audio.source
        = "dataset"

\* C29: for one state of the Song table, a candidate returned by
\* search_tracks is tagged in_dataset exactly when resolving it by
\* identifier (get_audio_features) has provenance 'dataset'.
C29_TagAgreesWithResolution ==
    last.op = "search_tracks" =>
        \A i \in 1..Len(last.hints) :
            last.hints[i].in_dataset <=> ResolvesFromDataset(last.hints[i].id)

====
